---- MODULE Spec2Model ----
(***************************************************************************)
(* The consensus ledger of DecentraStore (shared/blockchain.py): a JSON    *)
(* persisted, hash-linked chain of blocks with proof-of-storage            *)
(* confirmations, together with the callers that feed it.                  *)
(*                                                                         *)
(* SHA-256 is taken to be collision free: a digest is modelled as the      *)
(* length-prefixed serialized payload it was computed from, so two digests *)
(* are equal exactly when their payloads are.  The 64-character string of  *)
(* zeros used as the genesis prev_hash is the one-element sequence <<0>>.  *)
(*                                                                         *)
(* A confirmation is kept as its node_id: chunk_hashes, timestamp and      *)
(* signature are stored with it and never read by the ledger.  The keys    *)
(* a block dict gains after to_dict (confirmed_at, rejected_at,            *)
(* rejection_reason) are kept in its field extra, a set of key-value pairs.*)
(***************************************************************************)
EXTENDS Naturals, Sequences, FiniteSets

\* ------------------------------------------------------------------ bounds
MaxChain == 2        \* blocks appended per ledger

\* peers that can confirm storage (node ids are keys of the NODES registry)
Nodes == {"n1", "n2"}
\* live-node counts handed to the ledger: int(2 * 0.67) = 1, int(3 * 0.67) = 2
TotalNodes == {2, 3}
\* block payloads (file metadata)
Data == {"file"}
\* readings of the clock, int(time.time()); a timestamp feeds only the digest
Times == {1}
\* reasons handed to reject_block (None is the default)
Reasons == {"None"}

\* ------------------------------------------------------- configuration
CONSENSUS_MIN_CONFIRMATIONS == 1
\* CONSENSUS_QUORUM_PERCENT = 0.67, kept as the exact fraction 67/100
QUORUM_PERCENT_NUM == 67
QUORUM_PERCENT_DEN == 100

PENDING == "pending"
CONFIRMED == "confirmed"
REJECTED == "rejected"

Max(a, b) == IF a >= b THEN a ELSE b

\* ------------------------------------------------------------- hashing
ZeroHash == <<0>>

sha256(payload) == <<Len(payload)>> \o payload

\* json.dumps(..., sort_keys=True): data, index, prev_hash, timestamp
HashPayloadWithStatus(b) ==
    <<b.data, b.index>> \o b.prev_hash \o <<b.timestamp>>
        \o <<IF b.status = PENDING THEN 0 ELSE IF b.status = CONFIRMED THEN 1 ELSE 2>>

HashPayload(b) == <<b.data, b.index>> \o b.prev_hash \o <<b.timestamp>>

compute_hash(b) == sha256(HashPayload(b))

\* Block.__init__ followed by to_dict
Block(index, prev_hash, data, timestamp, status, confirmations) ==
    LET fields == [index |-> index, prev_hash |-> prev_hash, data |-> data,
                   timestamp |-> timestamp, status |-> status,
                   confirmations |-> confirmations]
    IN  [index |-> index, prev_hash |-> prev_hash, data |-> data,
         timestamp |-> timestamp, hash |-> compute_hash(fields),
         status |-> status, confirmations |-> confirmations, extra |-> {}]

\* block[key] = value on a block dict, for a key outside to_dict's
SetKey(extra, key, value) ==
    {kv \in extra : kv[1] # key} \cup {<<key, value>>}

\* -------------------------------------------------------------- state
VARIABLES
    up,             \* a ConsensusBlockchain instance exists (process running)
    chain,          \* self.chain
    pending_blocks, \* keys of self._pending_blocks
    file,           \* the persisted ledger file (<<>> when absent)
    allow_pending,  \* CONSENSUS_ALLOW_PENDING of this deployment
    last,           \* the last call: operation, arguments, outcome
    lock,           \* holder of self.lock, "free" when nobody holds it
    thread,         \* per calling thread: its call, position and locals
    serial,         \* the chain the calls give when run in lock order
    nodes_lock,     \* holder of NODES_LOCK, "free" when nobody holds it
    NODES,          \* the node registry: node_id -> entry, for registered ids
    queues,         \* the Queue objects made by callers: request id -> replies
    caller,         \* per request thread of server.py: its call and position
    wire,           \* messages emitted and not yet handled by their receiver
    next_id,        \* the next value of uuid.uuid4()
    dl,             \* a download request: its position, what it did, its answer
    ul,             \* an upload request: its position, what it did, its answer
    peer,           \* a storage node: its kind, its chunk files, its last request
    sp,             \* a select_peers call: its probes, the clock, its result
    uc,             \* an upload_chunk_to_peer call: its requests and its result
    ck,             \* a chunk_bytes call: its arguments and what it yields
    mk,             \* a compute_merkle_root call and a later verify_merkle_root
    cr,             \* an encrypt_chunk call and a later decrypt_chunk
    conn            \* the socket connections of the nodes, by socket id

ledger_vars == <<up, chain, pending_blocks, file, allow_pending, last>>

thread_vars == <<lock, thread, serial>>

transport_vars == <<nodes_lock, NODES, queues, caller, wire, next_id>>

vars == <<ledger_vars, thread_vars, transport_vars, dl, ul, peer, sp, uc, ck,
    mk, cr, conn>>

\* what a specification of one part leaves alone
outside_ledger == <<thread_vars, transport_vars, dl, ul, peer, sp, uc, ck,
    mk, cr, conn>>

outside_threads == <<transport_vars, dl, ul, peer, sp, uc, ck,
    mk, cr, conn>>

outside_transport == <<ledger_vars, thread_vars, dl, ul, peer, sp, uc, ck,
    mk, cr, conn>>

outside_files == <<thread_vars, transport_vars, ul, peer, sp, uc, ck,
    mk, cr, conn>>

outside_uploads == <<thread_vars, transport_vars, dl, peer, sp, uc, ck,
    mk, cr, conn>>

outside_peer == <<ledger_vars, thread_vars, transport_vars, dl, ul, sp, uc, ck,
    mk, cr, conn>>

outside_probes == <<ledger_vars, thread_vars, transport_vars, dl, ul, peer, uc, ck,
    mk, cr, conn>>

outside_retry == <<ledger_vars, thread_vars, transport_vars, dl, ul, peer, sp, ck,
    mk, cr, conn>>

outside_chunking == <<ledger_vars, thread_vars, transport_vars, dl, ul, peer, sp, uc,
    mk, cr, conn>>

outside_merkle == <<ledger_vars, thread_vars, transport_vars, dl, ul, peer, sp, uc,
    ck, cr, conn>>

outside_crypto == <<ledger_vars, thread_vars, transport_vars, dl, ul, peer, sp, uc,
    ck, mk, conn>>

outside_connections == <<ledger_vars, thread_vars, dl, ul, peer, sp, uc, ck,
    mk, cr>>

NoCall == [op |-> "init", idx |-> 0, total_nodes |-> 0,
           required |-> 0, pre |-> "-", dup |-> FALSE, ret |-> "-"]

\* --------------------------------------------------------- pure helpers
Range(s) == {s[i] : i \in 1..Len(s)}

ConfNodes(b) == {b.confirmations[i].node_id : i \in 1..Len(b.confirmations)}

\* duplicate-free sequences over S (the key order of a dict)
DupFreeSeqs(S) ==
    UNION {{s \in [1..n -> S] : \A i, j \in 1..n : s[i] = s[j] => i = j}
           : n \in 0..Cardinality(S)}

FloorDiv(a, b) == a \div b
CeilDiv(a, b) == (a + b - 1) \div b

calculate_required_confirmations_ceil(total_nodes) ==
    Max(CONSENSUS_MIN_CONFIRMATIONS,
        Max(1, CeilDiv(total_nodes * QUORUM_PERCENT_NUM, QUORUM_PERCENT_DEN)))

\* int(total_nodes * 0.67) truncates, which is floor for total_nodes >= 0
calculate_required_confirmations(total_nodes) ==
    LET quorum_count ==
            Max(1, FloorDiv(total_nodes * QUORUM_PERCENT_NUM, QUORUM_PERCENT_DEN))
    IN  Max(CONSENSUS_MIN_CONFIRMATIONS, quorum_count)

get_last_hash_zero(c) == ZeroHash

get_last_hash(c) == IF Len(c) = 0 THEN ZeroHash ELSE c[Len(c)].hash

\* position of the first block with this hash, 0 when there is none
FindBlock(c, block_hash) ==
    IF \E i \in 1..Len(c) : c[i].hash = block_hash
    THEN CHOOSE i \in 1..Len(c) :
            /\ c[i].hash = block_hash
            /\ \A j \in 1..(i - 1) : c[j].hash # block_hash
    ELSE 0

NodeKeyOrders == DupFreeSeqs(Nodes)

\* server.py upload_file: one confirmation per key of node_confirmations
InitialConfirmations(node_confirmations) ==
    [i \in 1..Len(node_confirmations) |-> [node_id |-> node_confirmations[i]]]

\* threads of the server process that call into the ledger, one call each
Threads == {"t1", "t2", "t3"}

NoThread == [pc |-> "idle", op |-> "-", user |-> "-", file_id |-> 0,
             block_hash |-> <<>>, node_id |-> "-",
             total_nodes |-> 0, now |-> 0, index |-> 0, prev_hash |-> <<>>,
             status |-> "-", ret |-> "-"]

\* request threads of server.py that talk to storage nodes, one call each
Callers == {"c1", "c2"}

NoRequest == [pc |-> "idle", op |-> "-", node_id |-> "-", request_id |-> 0,
              got |-> 0, ret |-> "-"]

NoDownload == [pc |-> "idle", impl |-> "-", user |-> "-", file_id |-> 0,
               password |-> "-", include_pending |-> FALSE, files |-> <<>>,
               rec_hash |-> <<>>, rec_root |-> <<>>, unwrapped |-> FALSE,
               i |-> 0, j |-> 0, log |-> <<>>, decrypted |-> {},
               got |-> <<>>, released |-> <<>>, status |-> "-"]

\* the upload request of server.py or backend/app.py, one per behaviour: its
\* locals, the store requests it made (log) and what it handed to add_block
NoUpload == [pc |-> "idle", impl |-> "-", user |-> "-", nodes |-> <<>>,
             i |-> 0, j |-> 0, selected |-> {}, assigned |-> <<>>,
             chunks |-> <<>>, node_confirmations |-> <<>>, log |-> <<>>,
             initial_confirmations |-> <<>>, handed |-> FALSE, status |-> "-"]

\* a request to a storage node and what the node did for it
NoRequestSeen == [op |-> "-", address |-> "-", data |-> <<>>, status |-> "-",
                  existed |-> FALSE, read |-> FALSE, wrote |-> FALSE,
                  deleted |-> FALSE, body |-> <<>>]

\* a storage node before its process starts: kind is the program it runs
NoPeer == [kind |-> "-", files |-> {}, last |-> NoRequestSeen]

\* a call of uploader.select_peers: arguments, the executor's queue and
\* running probes, the clock in milliseconds since the call, the result
NoSelect == [pc |-> "idle", peers |-> <<>>, probe |-> <<>>, count |-> 0,
             max_workers |-> 0, clock |-> 0, queue |-> <<>>, running |-> {},
             finished |-> {}, done |-> {}, results |-> <<>>,
             selected |-> <<>>]

\* a call of uploader.upload_chunk_to_peer: its loop counter, the retry the
\* session's adapter has used in this pass, the HTTP requests sent so far
NoUploadCall == [pc |-> "idle", retries |-> 0, attempt |-> 0, adapter |-> 0,
                 sent |-> <<>>, status |-> "-"]

\* a call of chunker.chunk_bytes and the tuples it yielded
NoChunking == [pc |-> "idle", data |-> <<>>, chunk_size |-> 0, pos |-> 0,
               chunks |-> <<>>]

\* a call of chunker.compute_merkle_root: the caller's list, the local layer
\* and the root returned; then a call of verify_merkle_root against that root
NoMerkle == [pc |-> "idle", chunk_hashes |-> <<>>, layer |-> <<>>,
             root |-> "-", checked |-> <<>>, expected_root |-> "-",
             verified |-> "-"]

\* a call of crypto.encrypt_chunk: its arguments, the nonce it drew and what
\* it returned; then a call of decrypt_chunk on that result
NoCrypto == [pc |-> "idle", key |-> <<>>, chunk_data |-> <<>>, nonce |-> <<>>,
             encrypted |-> <<>>, damage |-> "-", decrypt_key |-> <<>>,
             decrypted |-> <<>>, status |-> "-"]

\* socket ids; a node process opens a connection, registers on it, and after
\* losing it opens another
Sids == {"s1", "s2", "s3"}

\* a connection before it is opened; left is what handle_disconnect found
\* registered on other connections
NoConnection == [state |-> "none", left |-> {}]

\* ---------------------------------------------------------------- Init
Init ==
    /\ up = TRUE
    /\ chain = <<>>
    /\ pending_blocks = {}
    /\ file = <<>>
    /\ allow_pending \in BOOLEAN
    /\ last = NoCall
    /\ lock = "free"
    /\ thread = [t \in Threads |-> NoThread]
    /\ serial = <<>>
    /\ nodes_lock = "free"
    /\ NODES = <<>>
    /\ queues = <<>>
    /\ caller = [c \in Callers |-> NoRequest]
    /\ wire = {}
    /\ next_id = 1
    /\ dl = NoDownload
    /\ ul = NoUpload
    /\ peer = NoPeer
    /\ sp = NoSelect
    /\ uc = NoUploadCall
    /\ ck = NoChunking
    /\ mk = NoMerkle
    /\ cr = NoCrypto
    /\ conn = [s \in Sids |-> NoConnection]

\* ------------------------------------------------------------- add_block
AddBlockStatusIgnoringConfig(confirmations, required, allow) ==
    IF Len(confirmations) >= required THEN CONFIRMED ELSE PENDING

\* the initial status, or the ValueError raised when consensus is missing and
\* pending blocks are not allowed
AddBlockStatus(confirmations, required, allow) ==
    IF Len(confirmations) >= required THEN CONFIRMED
    ELSE IF allow THEN PENDING
    ELSE "ValueError"

\* add_block on a ledger that takes blocks up to length
add_block_within(length, data, initial_confirmations, total_nodes, timestamp) ==
    LET index == Len(chain)
        prev_hash == get_last_hash(chain)
        required == calculate_required_confirmations(total_nodes)
        status == AddBlockStatus(initial_confirmations, required, allow_pending)
        entry == Block(index, prev_hash, data, timestamp, status, initial_confirmations)
    IN  /\ up
        /\ Len(chain) < length
        /\ IF status = "ValueError"
           THEN /\ UNCHANGED <<chain, pending_blocks, file>>
                /\ last' = [NoCall EXCEPT !.op = "add_block", !.idx = 0,
                                          !.total_nodes = total_nodes,
                                          !.required = required,
                                          !.ret = "ValueError"]
           ELSE /\ chain' = Append(chain, entry)
                /\ pending_blocks' = IF status = PENDING
                                     THEN pending_blocks \cup {entry.hash}
                                     ELSE pending_blocks
                /\ file' = chain'
                /\ last' = [NoCall EXCEPT !.op = "add_block", !.idx = index + 1,
                                          !.total_nodes = total_nodes,
                                          !.required = required,
                                          !.ret = "block"]
        /\ UNCHANGED <<up, allow_pending>>

add_block(data, initial_confirmations, total_nodes, timestamp) ==
    add_block_within(MaxChain, data, initial_confirmations, total_nodes, timestamp)

AddBlock ==
    \E data \in Data, keys \in NodeKeyOrders,
       total_nodes \in TotalNodes, timestamp \in Times :
        add_block(data, InitialConfirmations(keys), total_nodes, timestamp)

\* ------------------------------------------------------- add_confirmation
AlreadyConfirmedNever(b, node_id) == FALSE

\* existing_nodes = {c["node_id"] for c in block["confirmations"]}; node_id in it
AlreadyConfirmed(b, node_id) == node_id \in ConfNodes(b)

ConsensusReachedAnyStatus(b, required) == Len(b.confirmations) >= required

ConsensusReachedStrict(b, required) ==
    Len(b.confirmations) > required /\ b.status = PENDING

\* len(block["confirmations"]) >= required and block["status"] == PENDING
ConsensusReached(b, required) ==
    Len(b.confirmations) >= required /\ b.status = PENDING

\* block["status"] = CONFIRMED; block["confirmed_at"] = int(time.time())
ConfirmedBlock(b, now) ==
    [b EXCEPT !.status = CONFIRMED, !.extra = SetKey(@, "confirmed_at", now)]

add_confirmation(block_hash, node_id, total_nodes, now) ==
    LET i == FindBlock(chain, block_hash)
        required == calculate_required_confirmations(total_nodes)
        call == [NoCall EXCEPT !.op = "add_confirmation", !.idx = i]
    IN  /\ up
        /\ IF i = 0
           THEN \* block not found: return None
                /\ UNCHANGED <<chain, pending_blocks, file>>
                /\ last' = [call EXCEPT !.ret = "None"]
           ELSE IF AlreadyConfirmed(chain[i], node_id)
           THEN \* already confirmed: return the block, nothing saved
                /\ UNCHANGED <<chain, pending_blocks, file>>
                /\ last' = [call EXCEPT !.pre = chain[i].status, !.dup = TRUE,
                                        !.total_nodes = total_nodes,
                                        !.ret = "block"]
           ELSE LET appended == [chain[i] EXCEPT !.confirmations =
                                    Append(@, [node_id |-> node_id])]
                    reached == ConsensusReached(appended, required)
                    updated == IF reached
                               THEN ConfirmedBlock(appended, now)
                               ELSE appended
                IN  /\ chain' = [chain EXCEPT ![i] = updated]
                    /\ pending_blocks' = IF reached
                                         THEN pending_blocks \ {block_hash}
                                         ELSE pending_blocks
                    /\ file' = chain'
                    /\ last' = [call EXCEPT !.pre = chain[i].status,
                                            !.total_nodes = total_nodes,
                                            !.required = required,
                                            !.ret = "block"]
        /\ UNCHANGED <<up, allow_pending>>

\* hashes a caller can present: those of the ledger's blocks and an unknown one
KnownHashes == {chain[i].hash : i \in 1..Len(chain)} \cup {ZeroHash}

AddConfirmation ==
    \E block_hash \in KnownHashes, node_id \in Nodes,
       total_nodes \in TotalNodes, now \in Times :
        add_confirmation(block_hash, node_id, total_nodes, now)

\* ----------------------------------------------------------- reject_block
RejectedBlockDataCleared(b, reason, now) ==
    [b EXCEPT !.status = REJECTED, !.data = reason]

\* status, rejected_at and rejection_reason of the block are written
RejectedBlock(b, reason, now) ==
    [b EXCEPT !.status = REJECTED,
              !.extra = SetKey(SetKey(@, "rejected_at", now),
                               "rejection_reason", reason)]

reject_block(block_hash, reason, now) ==
    LET i == FindBlock(chain, block_hash)
        call == [NoCall EXCEPT !.op = "reject_block", !.idx = i]
    IN  /\ up
        /\ IF i = 0
           THEN /\ UNCHANGED <<chain, pending_blocks, file>>
                /\ last' = [call EXCEPT !.ret = "None"]
           ELSE /\ chain' = [chain EXCEPT ![i] = RejectedBlock(@, reason, now)]
                /\ pending_blocks' = pending_blocks \ {block_hash}
                /\ file' = chain'
                /\ last' = [call EXCEPT !.pre = chain[i].status, !.ret = "block"]
        /\ UNCHANGED <<up, allow_pending>>

RejectBlock ==
    \E block_hash \in KnownHashes, reason \in Reasons, now \in Times :
        reject_block(block_hash, reason, now)

\* ------------------------------------------------- restart and the file
\* _validate_chain: no exception raised
validate_chain(c) ==
    \A i \in 1..Len(c) :
        /\ c[i].index = i - 1
        /\ c[i].prev_hash = (IF i = 1 THEN ZeroHash ELSE c[i - 1].hash)
        /\ compute_hash(c[i]) = c[i].hash

\* _index_pending
index_pending(c) == {c[i].hash : i \in {j \in 1..Len(c) : c[j].status = PENDING}}

\* the process ends; the in-memory chain is gone, the file stays
Stop ==
    /\ up
    /\ up' = FALSE
    /\ chain' = <<>>
    /\ pending_blocks' = {}
    /\ last' = [NoCall EXCEPT !.op = "stop"]
    /\ UNCHANGED <<file, allow_pending>>

\* ConsensusBlockchain.__init__ with _load: any exception means starting fresh
Load ==
    /\ ~up
    /\ up' = TRUE
    /\ IF validate_chain(file)
       THEN /\ chain' = file
            /\ pending_blocks' = index_pending(file)
                    /\ last' = [NoCall EXCEPT !.op = "load", !.ret = "ok"]
       ELSE /\ chain' = <<>>
            /\ pending_blocks' = {}
            /\ last' = [NoCall EXCEPT !.op = "load", !.ret = "error"]
    /\ UNCHANGED <<file, allow_pending>>

\* Somebody overwrites the stored hash or prev_hash of one block of an intact
\* ledger file with a forged digest while the process is down.
ForgedHash == ZeroHash

Tamper ==
    /\ ~up
    /\ validate_chain(file)
    /\ \E i \in 1..Len(file) :
        \/ /\ ForgedHash # file[i].hash
           /\ file' = [file EXCEPT ![i].hash = ForgedHash]
        \/ /\ ForgedHash # file[i].prev_hash
           /\ file' = [file EXCEPT ![i].prev_hash = ForgedHash]
    /\ last' = [NoCall EXCEPT !.op = "tamper"]
    /\ UNCHANGED <<up, chain, pending_blocks, allow_pending>>

Next ==
    \/ AddBlock /\ UNCHANGED outside_ledger
    \/ AddConfirmation /\ UNCHANGED outside_ledger
    \/ RejectBlock /\ UNCHANGED outside_ledger
    \/ Stop /\ UNCHANGED outside_ledger
    \/ Load /\ UNCHANGED outside_ledger
    \/ Tamper /\ UNCHANGED outside_ledger

Spec == Init /\ [][Next]_vars

\* ------------------------------------------------------------ scenario B
\* Three live peers; blocks are created without confirmations and every
\* confirmation arrives while all three peers are live.
ScenarioPeers == {"n1", "n2", "n3"}

LivePeers == Cardinality(ScenarioPeers)

AddBlockB ==
    \E data \in Data, timestamp \in Times :
        add_block(data, InitialConfirmations(<<>>), LivePeers, timestamp)

AddConfirmationB ==
    \E block_hash \in KnownHashes, node_id \in ScenarioPeers, now \in Times :
        add_confirmation(block_hash, node_id, LivePeers, now)

NextB ==
    \/ AddBlockB /\ UNCHANGED outside_ledger
    \/ AddConfirmationB /\ UNCHANGED outside_ledger

SpecB == Init /\ [][NextB]_vars

\* ================================================================ claims
NoDuplicates(confirmations) ==
    \A i, j \in 1..Len(confirmations) :
        confirmations[i].node_id = confirmations[j].node_id => i = j

\* C1: every block at position i > 0 carries the hash of the block before it as
\* prev_hash, the first block carries the all-zero hash, and every block's index
\* is its position in the chain.
C1_ChainLinked ==
    \A i \in 1..Len(chain) :
        /\ chain[i].index = i - 1
        /\ chain[i].prev_hash = (IF i = 1 THEN ZeroHash ELSE chain[i - 1].hash)

C1_Witness ==
    /\ Len(chain) >= 2
    /\ last.op = "add_confirmation" /\ last.ret = "block" /\ ~last.dup
    /\ \E i \in 1..Len(chain) : chain[i].status = REJECTED

\* C2: every stored hash equals the hash recomputed from index, prev_hash, data
\* and timestamp, and neither add_confirmation nor reject_block changes a hash.
C2_HashOfImmutableFields ==
    /\ [](\A i \in 1..Len(chain) : chain[i].hash = compute_hash(chain[i]))
    /\ [][last'.op \in {"add_confirmation", "reject_block"} =>
            /\ Len(chain') = Len(chain)
            /\ \A i \in 1..Len(chain) : chain'[i].hash = chain[i].hash]_vars

C2_Witness ==
    /\ last.op = "add_confirmation" /\ last.ret = "block"
    /\ last.pre = PENDING
    /\ chain[last.idx].status = CONFIRMED

\* C3: a confirmed block stays confirmed under every add_confirmation and
\* reject_block call.
C3_ConfirmedIsTerminal ==
    [][last'.op \in {"add_confirmation", "reject_block"} =>
        \A i \in 1..Len(chain) :
            chain[i].status = CONFIRMED => chain'[i].status = CONFIRMED]_vars

\* C4: a rejected block stays rejected under every add_confirmation and
\* reject_block call, also when its confirmations reach the required count.
C4_RejectedIsTerminal ==
    [][last'.op \in {"add_confirmation", "reject_block"} =>
        \A i \in 1..Len(chain) :
            chain[i].status = REJECTED => chain'[i].status = REJECTED]_vars

C4_Witness ==
    /\ last.op = "add_confirmation" /\ last.ret = "block" /\ ~last.dup
    /\ last.pre = REJECTED
    /\ chain[last.idx].status = REJECTED
    /\ Len(chain[last.idx].confirmations) >= last.required

\* C5 as stated: after every add_confirmation that found a pending block, a
\* repeated one included, the block is confirmed if its distinct confirming
\* peers number at least the count required for the total_nodes of that call.
C5_ConfirmedAtEveryArrival ==
    (/\ last.op = "add_confirmation" /\ last.ret = "block"
     /\ last.pre = PENDING
     /\ Cardinality(ConfNodes(chain[last.idx]))
            >= calculate_required_confirmations(last.total_nodes))
    => chain[last.idx].status = CONFIRMED

\* C5 amended: the same for every arrival from a peer not yet recorded on the
\* block; an arrival from a recorded peer leaves the status as it was.
C5_ConfirmedAtNewArrival ==
    /\ (/\ last.op = "add_confirmation" /\ last.ret = "block"
        /\ ~last.dup
        /\ last.pre = PENDING
        /\ Cardinality(ConfNodes(chain[last.idx]))
               >= calculate_required_confirmations(last.total_nodes))
       => chain[last.idx].status = CONFIRMED
    /\ (last.op = "add_confirmation" /\ last.dup)
       => chain[last.idx].status = last.pre

C5_Witness ==
    /\ last.op = "add_confirmation" /\ last.ret = "block" /\ ~last.dup
    /\ last.pre = PENDING
    /\ last.total_nodes = 3
    /\ Len(chain[last.idx].confirmations) = last.required
    /\ chain[last.idx].status = CONFIRMED

RequiredWasComputed == last.op \in {"add_block", "add_confirmation"} /\ last.required > 0

\* C6 as stated: the required count is
\* max(minConfirmations, ceil(quorumPercent * N)).
C6_RequiredIsCeil ==
    RequiredWasComputed =>
        last.required =
            Max(CONSENSUS_MIN_CONFIRMATIONS,
                CeilDiv(last.total_nodes * QUORUM_PERCENT_NUM, QUORUM_PERCENT_DEN))

\* C6 amended: the required count is
\* max(minConfirmations, max(1, floor(quorumPercent * N))).
C6_RequiredIsFloor ==
    RequiredWasComputed =>
        last.required =
            Max(CONSENSUS_MIN_CONFIRMATIONS,
                Max(1, (last.total_nodes * QUORUM_PERCENT_NUM) \div QUORUM_PERCENT_DEN))

C6_Witness ==
    /\ last.op = "add_confirmation" /\ last.ret = "block"
    /\ last.total_nodes = 2
    /\ last.required = 1

\* C7: with the default quorum settings and 3 live peers the required count is
\* 2: a block created without confirmations is pending with one confirmation,
\* confirmed from the second distinct peer on, and keeps that status when the
\* third peer's confirmation is appended.
C7_ScenarioB ==
    /\ RequiredWasComputed => last.required = 2
    /\ \A i \in 1..Len(chain) :
        /\ Len(chain[i].confirmations) <= 1 => chain[i].status = PENDING
        /\ Len(chain[i].confirmations) >= 2 => chain[i].status = CONFIRMED
    /\ (last.op = "add_confirmation" /\ last.ret = "block" /\ ~last.dup
            /\ last.pre = CONFIRMED)
        => Len(chain[last.idx].confirmations) = 3

C7_Witness ==
    /\ last.op = "add_confirmation" /\ last.ret = "block" /\ ~last.dup
    /\ last.pre = CONFIRMED
    /\ Len(chain[last.idx].confirmations) = 3
    /\ chain[last.idx].status = CONFIRMED

\* C8: no block holds two confirmations of one node_id, and an add_confirmation
\* from a peer already recorded on the block changes neither the block's
\* confirmations nor its status and returns the block.
C8_OneConfirmationPerPeer ==
    /\ [](\A i \in 1..Len(chain) : NoDuplicates(chain[i].confirmations))
    /\ [][(last'.op = "add_confirmation" /\ last'.idx # 0) =>
            \A node_id \in Nodes, now \in Times :
                (/\ node_id \in ConfNodes(chain[last'.idx])
                 /\ add_confirmation(chain[last'.idx].hash, node_id,
                                     last'.total_nodes, now))
                => (chain' = chain /\ last'.ret = "block")]_vars

C8_Witness ==
    /\ last.op = "add_confirmation" /\ last.dup /\ last.ret = "block"
    /\ last.pre = PENDING
    /\ Len(chain[last.idx].confirmations) = 1
    /\ chain[last.idx].status = PENDING

\* C9: add_block creates the block confirmed exactly when its distinct initial
\* confirming peers number at least the count required for total_nodes, pending
\* otherwise when pending blocks are allowed, and otherwise fails with
\* ValueError leaving chain, pending index and file as they were.
C9_AddBlockStatus ==
    [][last'.op = "add_block" =>
       \A data \in Data, keys \in NodeKeyOrders, timestamp \in Times :
        add_block(data, InitialConfirmations(keys), last'.total_nodes, timestamp)
        => LET reached ==
                   Cardinality(Range(keys))
                       >= calculate_required_confirmations(last'.total_nodes)
           IN  IF reached \/ allow_pending
               THEN /\ Len(chain') = Len(chain) + 1
                    /\ last'.ret = "block"
                    /\ chain'[Len(chain')].status =
                            (IF reached THEN CONFIRMED ELSE PENDING)
                    /\ chain'[Len(chain')].confirmations = InitialConfirmations(keys)
               ELSE /\ last'.ret = "ValueError"
                    /\ UNCHANGED <<chain, pending_blocks, file>>]_vars

C9_Witness ==
    /\ last.op = "add_block" /\ last.ret = "ValueError"
    /\ ~allow_pending
    /\ Len(chain) = 1 /\ chain[1].status = CONFIRMED
    /\ file = chain

\* C10: a ledger whose file failed validation at load serves no blocks and
\* accepts no new block: its chain stays empty and the file is not replaced.
C10_TamperedLedgerRefused ==
    [][(up /\ ~validate_chain(file)) => (chain' = <<>> /\ file' = file)]_vars

\* ------------------------------------------------------------------ C11
LedgerCalls == {"add_block", "add_confirmation", "reject_block"}

ExtraKeys(b) == {kv[1] : kv \in b.extra}

\* C11 as stated: across add_block, add_confirmation and reject_block calls no
\* block is removed or reordered, and status and confirmations are the only
\* fields of an existing block that change; no other field is added or
\* rewritten.
C11_OnlyStatusAndConfirmationsChange ==
    [][last'.op \in LedgerCalls =>
        /\ Len(chain') >= Len(chain)
        /\ \A i \in 1..Len(chain) :
            chain'[i] = [chain[i] EXCEPT !.status = chain'[i].status,
                                         !.confirmations = chain'[i].confirmations]]_vars

\* C11 amended: no block is removed or reordered and index, prev_hash, data,
\* timestamp and hash of every block keep their values from creation; besides
\* status and confirmations a block gains the key confirmed_at in the
\* add_confirmation that confirms it, and rejected_at and rejection_reason in
\* every reject_block of it; nothing else is added or rewritten.
C11_FrameWithAuditKeys ==
    [][last'.op \in LedgerCalls =>
        /\ Len(chain') >= Len(chain)
        /\ \A i \in 1..Len(chain) :
            /\ chain'[i] = [chain[i] EXCEPT !.status = chain'[i].status,
                                            !.confirmations = chain'[i].confirmations,
                                            !.extra = chain'[i].extra]
            /\ ExtraKeys(chain'[i]) \ ExtraKeys(chain[i]) =
                    IF last'.op = "reject_block" /\ last'.idx = i
                    THEN {"rejected_at", "rejection_reason"} \ ExtraKeys(chain[i])
                    ELSE IF /\ last'.op = "add_confirmation" /\ last'.idx = i
                            /\ chain[i].status = PENDING
                            /\ chain'[i].status = CONFIRMED
                    THEN {"confirmed_at"}
                    ELSE {}
            /\ \A kv \in chain[i].extra :
                    kv[1] = "confirmed_at" => kv \in chain'[i].extra]_vars

C11_Witness ==
    /\ last.op = "reject_block" /\ last.ret = "block"
    /\ last.pre = PENDING
    /\ ExtraKeys(chain[last.idx]) = {"rejected_at", "rejection_reason"}
    /\ \E j \in 1..Len(chain) :
        /\ chain[j].status = CONFIRMED
        /\ ExtraKeys(chain[j]) = {"confirmed_at"}

\* ------------------------------------------- concurrent callers of the ledger
\* Each thread makes one call.  The body of a call runs between acquiring and
\* releasing self.lock, in steps: read (locate the block or the end of the
\* chain), write (mutate the chain), save (_save), release.

\* the payload and the reason the threads' calls carry
CallData == CHOOSE data \in Data : TRUE

CallReason == CHOOSE reason \in Reasons : TRUE

\* the chain after add_block run alone on chain c
SerialAddBlock(c, data, confirmations, total_nodes, timestamp, allow) ==
    LET required == calculate_required_confirmations(total_nodes)
        status == AddBlockStatus(confirmations, required, allow)
    IN  IF status = "ValueError" THEN c
        ELSE Append(c, Block(Len(c), get_last_hash(c), data, timestamp,
                             status, confirmations))

\* the block after the arrival of node_id's confirmation
WithConfirmation(b, node_id, total_nodes, now) ==
    LET appended == [b EXCEPT !.confirmations = Append(@, [node_id |-> node_id])]
        required == calculate_required_confirmations(total_nodes)
    IN  IF ConsensusReached(appended, required)
        THEN ConfirmedBlock(appended, now)
        ELSE appended

\* the chain after add_confirmation run alone on chain c
SerialAddConfirmation(c, block_hash, node_id, total_nodes, now) ==
    LET i == FindBlock(c, block_hash)
    IN  IF i = 0 \/ AlreadyConfirmed(c[i], node_id) THEN c
        ELSE [c EXCEPT ![i] = WithConfirmation(@, node_id, total_nodes, now)]

\* the chain after reject_block run alone on chain c
SerialRejectBlock(c, block_hash, reason, now) ==
    LET i == FindBlock(c, block_hash)
    IN  IF i = 0 THEN c ELSE [c EXCEPT ![i] = RejectedBlock(@, reason, now)]

SerialResult(c, th, allow) ==
    IF th.op = "add_block"
    THEN SerialAddBlock(c, CallData, <<>>, th.total_nodes, th.now, allow)
    ELSE IF th.op = "add_confirmation"
    THEN SerialAddConfirmation(c, th.block_hash, th.node_id, th.total_nodes, th.now)
    ELSE SerialRejectBlock(c, th.block_hash, CallReason, th.now)

LockFreeAlways(l) == TRUE

\* with self.lock: a threading.Lock is taken only when nobody holds it
LockFree(l) == l = "free"

InBody(t) == thread[t].pc \in {"read", "write", "save", "release"}

AddBlockCalls == Cardinality({t \in Threads : thread[t].op = "add_block"})

\* a thread enters one of the three methods and reaches "with self.lock"
Call(t) ==
    /\ thread[t].pc = "idle"
    /\ \E total_nodes \in TotalNodes, now \in Times :
        \/ /\ AddBlockCalls < MaxChain
           /\ thread' = [thread EXCEPT ![t] =
                    [NoThread EXCEPT !.pc = "lock", !.op = "add_block",
                                     !.total_nodes = total_nodes, !.now = now]]
        \/ \E block_hash \in KnownHashes, node_id \in Nodes :
                thread' = [thread EXCEPT ![t] =
                    [NoThread EXCEPT !.pc = "lock", !.op = "add_confirmation",
                                     !.block_hash = block_hash,
                                     !.node_id = node_id,
                                     !.total_nodes = total_nodes, !.now = now]]
        \/ \E block_hash \in KnownHashes :
                thread' = [thread EXCEPT ![t] =
                    [NoThread EXCEPT !.pc = "lock", !.op = "reject_block",
                                     !.block_hash = block_hash, !.now = now]]
    /\ UNCHANGED <<ledger_vars, lock, serial>>

Acquire(t) ==
    /\ thread[t].pc = "lock"
    /\ LockFree(lock)
    /\ lock' = t
    /\ thread' = [thread EXCEPT ![t].pc = "read"]
    /\ serial' = SerialResult(serial, thread[t], allow_pending)
    /\ UNCHANGED ledger_vars

\* the part of the body before the first mutation
Read(t) ==
    LET th == thread[t]
        i == FindBlock(chain, th.block_hash)
        status == AddBlockStatus(<<>>, calculate_required_confirmations(th.total_nodes),
                                 allow_pending)
    IN  /\ th.pc = "read"
        /\ thread' = [thread EXCEPT ![t] =
                IF th.op = "add_block"
                THEN IF status = "ValueError"
                     THEN [th EXCEPT !.pc = "release", !.ret = "ValueError"]
                     ELSE [th EXCEPT !.pc = "write", !.index = Len(chain),
                                     !.prev_hash = get_last_hash(chain),
                                     !.status = status]
                ELSE IF i = 0
                THEN [th EXCEPT !.pc = "release", !.ret = "None"]
                ELSE IF th.op = "add_confirmation" /\ AlreadyConfirmed(chain[i], th.node_id)
                THEN [th EXCEPT !.pc = "release", !.index = i, !.ret = "block"]
                ELSE [th EXCEPT !.pc = "write", !.index = i]]
        /\ UNCHANGED <<ledger_vars, lock, serial>>

\* the mutation of self.chain and self._pending_blocks
Write(t) ==
    LET th == thread[t]
        entry == Block(th.index, th.prev_hash, CallData, th.now, th.status, <<>>)
        i == th.index
    IN  /\ th.pc = "write"
        /\ IF th.op = "add_block"
           THEN /\ chain' = Append(chain, entry)
                /\ pending_blocks' = IF th.status = PENDING
                                     THEN pending_blocks \cup {entry.hash}
                                     ELSE pending_blocks
           ELSE IF th.op = "add_confirmation"
           THEN /\ chain' = [chain EXCEPT ![i] =
                        WithConfirmation(@, th.node_id, th.total_nodes, th.now)]
                /\ pending_blocks' = IF chain'[i].status # chain[i].status
                                     THEN pending_blocks \ {th.block_hash}
                                     ELSE pending_blocks
           ELSE /\ chain' = [chain EXCEPT ![i] = RejectedBlock(@, CallReason, th.now)]
                /\ pending_blocks' = pending_blocks \ {th.block_hash}
        /\ thread' = [thread EXCEPT ![t].pc = "save"]
        /\ UNCHANGED <<up, file, allow_pending, last, lock, serial>>

\* self._save()
Save(t) ==
    /\ thread[t].pc = "save"
    /\ file' = chain
    /\ thread' = [thread EXCEPT ![t].pc = "release", ![t].ret = "block"]
    /\ UNCHANGED <<up, chain, pending_blocks, allow_pending, last, lock, serial>>

\* leaving the with block: the lock is released and the call returns
Release(t) ==
    /\ thread[t].pc = "release"
    /\ lock' = "free"
    /\ thread' = [thread EXCEPT ![t].pc = "done"]
    /\ UNCHANGED <<ledger_vars, serial>>

NextT ==
    \/ \E t \in Threads : Call(t) /\ UNCHANGED outside_threads
    \/ \E t \in Threads : Acquire(t) /\ UNCHANGED outside_threads
    \/ \E t \in Threads : Read(t) /\ UNCHANGED outside_threads
    \/ \E t \in Threads : Write(t) /\ UNCHANGED outside_threads
    \/ \E t \in Threads : Save(t) /\ UNCHANGED outside_threads
    \/ \E t \in Threads : Release(t) /\ UNCHANGED outside_threads

SpecT == Init /\ [][NextT]_vars

\* ------------------------------------------------------------------ C12
Quiescent == \A t \in Threads : ~InBody(t)

\* C12: concurrent add_block, add_confirmation and reject_block calls leave the
\* ledger some serial order of them leaves: whenever no call is inside its
\* body the chain is the one the calls give when run one after another in the
\* order they took the lock, and the persisted file equals the chain; no two
\* blocks have the same index or the same prev_hash; and the confirmation of
\* every add_confirmation that returned the block is on the block.
C12_Serializable ==
    /\ Quiescent => (chain = serial /\ file = chain)
    /\ \A i, j \in 1..Len(chain) :
        i # j => /\ chain[i].index # chain[j].index
                 /\ chain[i].prev_hash # chain[j].prev_hash
    /\ \A t \in Threads :
        (/\ thread[t].pc = "done" /\ thread[t].op = "add_confirmation"
         /\ thread[t].ret = "block")
        => thread[t].node_id \in ConfNodes(chain[thread[t].index])

C12_Witness ==
    /\ \A t \in Threads : thread[t].pc = "done" /\ thread[t].ret = "block"
    /\ \E t, u \in Threads :
        /\ thread[t].op = "add_confirmation" /\ thread[u].op = "add_confirmation"
        /\ thread[t].node_id # thread[u].node_id
        /\ thread[t].index = thread[u].index
        /\ Len(chain[thread[t].index].confirmations) = 2
    /\ file = chain

\* ------------------------------------------- the node transport of server.py
\* A registry entry holds the node's socket id and its response_queues, the
\* request ids whose Queue is registered; the Queue objects live in queues.
\* A "with NODES_LOCK" block that sends nothing is one step that takes the
\* lock, followed by the step that releases it.

Put(f, k, v) == [x \in DOMAIN f \cup {k} |-> IF x = k THEN v ELSE f[x]]

Registered(node_id) == node_id \in DOMAIN NODES

HasSlot(node_id, request_id) ==
    Registered(node_id) /\ request_id \in NODES[node_id].response_queues

SlotByArrival(node_id, request_id) ==
    IF Registered(node_id) /\ NODES[node_id].response_queues # {}
    THEN CHOOSE r \in NODES[node_id].response_queues :
            \A q \in NODES[node_id].response_queues : r <= q
    ELSE 0

\* the Queue a reply is put in: NODES[node_id]['response_queues'][request_id],
\* 0 when the node or the request id is not there
SlotFor(node_id, request_id) ==
    IF HasSlot(node_id, request_id) THEN request_id ELSE 0

\* handle_node_register: the entry is replaced, with empty response_queues
NodeRegister(n) ==
    /\ nodes_lock = "free"
    /\ NODES' = Put(NODES, n, [sid |-> n, response_queues |-> {}])
    /\ UNCHANGED <<nodes_lock, queues, caller, wire, next_id>>

\* handle_disconnect: every entry with the socket's id is removed
NodeDisconnect(n) ==
    /\ nodes_lock = "free"
    /\ Registered(n)
    /\ NODES' = [x \in {y \in DOMAIN NODES : NODES[y].sid # n} |-> NODES[x]]
    /\ UNCHANGED <<nodes_lock, queues, caller, wire, next_id>>

\* a request thread enters send_chunk_to_node or retrieve_chunk_from_node,
\* or reaches the emit loop of delete_file
Begin(c) ==
    /\ caller[c].pc = "idle"
    /\ \E op \in {"store_chunk", "retrieve_chunk", "delete_chunk"}, n \in Nodes :
        caller' = [caller EXCEPT ![c] =
                    [NoRequest EXCEPT !.pc = "enter", !.op = op, !.node_id = n]]
    /\ UNCHANGED <<nodes_lock, NODES, queues, wire, next_id>>

\* the first with NODES_LOCK block of send_chunk_to_node and
\* retrieve_chunk_from_node
Register(c) ==
    LET r == caller[c]
    IN  /\ r.pc = "enter" /\ r.op # "delete_chunk"
        /\ nodes_lock = "free"
        /\ nodes_lock' = c
        /\ IF ~Registered(r.node_id)
           THEN /\ caller' = [caller EXCEPT ![c].pc = "refused",
                                            ![c].ret = IF r.op = "store_chunk"
                                                       THEN "False" ELSE "None"]
                /\ UNCHANGED <<NODES, queues, next_id>>
           ELSE /\ caller' = [caller EXCEPT ![c].pc = "registered",
                                            ![c].request_id = next_id]
                /\ queues' = Put(queues, next_id, <<>>)
                /\ NODES' = [NODES EXCEPT ![r.node_id].response_queues =
                                            @ \cup {next_id}]
                /\ next_id' = next_id + 1
        /\ UNCHANGED wire

\* delete_file: with NODES_LOCK: node_info = NODES.get(node_id)
DeleteLookup(c) ==
    LET r == caller[c]
    IN  /\ r.pc = "enter" /\ r.op = "delete_chunk"
        /\ nodes_lock = "free"
        /\ nodes_lock' = c
        /\ caller' = [caller EXCEPT ![c].pc =
                        IF Registered(r.node_id) THEN "emit" ELSE "finished"]
        /\ UNCHANGED <<NODES, queues, wire, next_id>>

\* leaving a with NODES_LOCK block
Unlock(c) ==
    LET r == caller[c]
    IN  /\ r.pc \in {"registered", "refused", "finished", "cleaned"}
        /\ nodes_lock = c
        /\ nodes_lock' = "free"
        /\ caller' = [caller EXCEPT ![c].pc =
                        IF r.pc = "registered" THEN "emit" ELSE "done"]
        /\ UNCHANGED <<NODES, queues, wire, next_id>>

\* socketio.emit of the request
Emit(c) ==
    LET r == caller[c]
    IN  /\ r.pc = "emit"
        /\ wire' = wire \cup {[kind |-> r.op, node_id |-> r.node_id,
                                request_id |-> r.request_id, success |-> TRUE]}
        /\ caller' = [caller EXCEPT ![c].pc =
                        IF r.op = "delete_chunk" THEN "finished" ELSE "wait"]
        /\ UNCHANGED <<nodes_lock, NODES, queues, next_id>>

Requests == {m \in wire : m.kind \in {"store_chunk", "retrieve_chunk", "delete_chunk"}}

Replies == wire \ Requests

\* websocket_node.py: the node handles a request and, for a store or a
\* retrieve, emits the reply with its node_id and the request's id
NodeHandle(m) ==
    /\ m \in Requests
    /\ IF m.kind = "delete_chunk"
       THEN wire' = wire \ {m}
       ELSE \E success \in BOOLEAN :
                wire' = (wire \ {m}) \cup
                    {[kind |-> IF m.kind = "store_chunk" THEN "chunk_stored"
                                                        ELSE "chunk_retrieved",
                      node_id |-> m.node_id, request_id |-> m.request_id,
                      success |-> success]}
    /\ UNCHANGED <<nodes_lock, NODES, queues, caller, next_id>>

\* handle_chunk_stored and handle_chunk_retrieved
HandleReply(m) ==
    LET slot == SlotFor(m.node_id, m.request_id)
    IN  /\ m \in Replies
        /\ nodes_lock = "free"
        /\ wire' = wire \ {m}
        /\ queues' = IF slot = 0 THEN queues
                     ELSE [queues EXCEPT ![slot] = Append(@, m)]
        /\ UNCHANGED <<nodes_lock, NODES, caller, next_id>>

\* response_queue.get returns a reply
Receive(c) ==
    LET r == caller[c]
        response == Head(queues[r.request_id])
    IN  /\ r.pc = "wait"
        /\ queues[r.request_id] # <<>>
        /\ queues' = [queues EXCEPT ![r.request_id] = Tail(@)]
        /\ caller' = [caller EXCEPT
                ![c].pc = "cleanup",
                ![c].got = response.request_id,
                ![c].ret = IF r.op = "store_chunk"
                           THEN (IF response.success THEN "True" ELSE "False")
                           ELSE (IF response.success THEN "chunk_data" ELSE "None")]
        /\ UNCHANGED <<nodes_lock, NODES, wire, next_id>>

\* response_queue.get raises Empty after the timeout
Timeout(c) ==
    LET r == caller[c]
    IN  /\ r.pc = "wait"
        /\ queues[r.request_id] = <<>>
        /\ caller' = [caller EXCEPT ![c].pc = "cleanup",
                                    ![c].ret = IF r.op = "store_chunk"
                                               THEN "False" ELSE "None"]
        /\ UNCHANGED <<nodes_lock, NODES, queues, wire, next_id>>

\* finally: with NODES_LOCK: the request id is deleted if it is still there
Cleanup(c) ==
    LET r == caller[c]
    IN  /\ r.pc = "cleanup"
        /\ nodes_lock = "free"
        /\ nodes_lock' = c
        /\ NODES' = IF HasSlot(r.node_id, r.request_id)
                    THEN [NODES EXCEPT ![r.node_id].response_queues =
                                            @ \ {r.request_id}]
                    ELSE NODES
        /\ caller' = [caller EXCEPT ![c].pc = "cleaned"]
        /\ UNCHANGED <<queues, wire, next_id>>

NextW ==
    \/ \E n \in Nodes : NodeRegister(n) /\ UNCHANGED outside_transport
    \/ \E n \in Nodes : NodeDisconnect(n) /\ UNCHANGED outside_transport
    \/ \E c \in Callers : Begin(c) /\ UNCHANGED outside_transport
    \/ \E c \in Callers : Register(c) /\ UNCHANGED outside_transport
    \/ \E c \in Callers : DeleteLookup(c) /\ UNCHANGED outside_transport
    \/ \E c \in Callers : Unlock(c) /\ UNCHANGED outside_transport
    \/ \E c \in Callers : Emit(c) /\ UNCHANGED outside_transport
    \/ \E m \in wire : NodeHandle(m) /\ UNCHANGED outside_transport
    \/ \E m \in wire : HandleReply(m) /\ UNCHANGED outside_transport
    \/ \E c \in Callers : Receive(c) /\ UNCHANGED outside_transport
    \/ \E c \in Callers : Timeout(c) /\ UNCHANGED outside_transport
    \/ \E c \in Callers : Cleanup(c) /\ UNCHANGED outside_transport

SpecW == Init /\ [][NextW]_vars

\* ------------------------------------------------------------------ C13
\* C13: with several store or retrieve requests outstanding to one node, a
\* reply is put only in the Queue registered under the request id it carries,
\* whatever order the replies arrive in, and a caller that got a reply got one
\* carrying its own request id.
C13_RepliesByRequestId ==
    /\ \A request_id \in DOMAIN queues :
        \A i \in 1..Len(queues[request_id]) :
            queues[request_id][i].request_id = request_id
    /\ \A c \in Callers :
        /\ caller[c].got \in {0, caller[c].request_id}
        /\ caller[c].ret \in {"True", "chunk_data"} => caller[c].got # 0

C13_Witness ==
    \E c, d \in Callers :
        /\ caller[c].node_id = caller[d].node_id
        /\ caller[c].request_id # 0
        /\ caller[c].request_id < caller[d].request_id
        /\ caller[d].got = caller[d].request_id
        /\ caller[c].pc = "wait"
        /\ Len(queues[caller[c].request_id]) = 1
        /\ HasSlot(caller[c].node_id, caller[c].request_id)

\* ------------------------------------------------------------------ C14
Returned(c) == caller[c].pc = "done" /\ caller[c].request_id # 0

CallerOf(request_id) == {c \in Callers : caller[c].request_id = request_id}

\* C14 as stated: a matching reply that arrives while its caller is blocked
\* reaches the caller's Queue, so the call returns the reply's result; once a
\* call has returned, its request id is in no node's response_queues; and a
\* reply handled after that changes nothing but the wire.
C14_ReplyOrTimeout ==
    [][/\ \A m \in Replies :
            (/\ HandleReply(m)
             /\ \E c \in CallerOf(m.request_id) : caller[c].pc = "wait")
            => queues'[m.request_id] = Append(queues[m.request_id], m)
       /\ \A c \in Callers :
            (caller'[c].pc = "done" /\ caller'[c].request_id # 0)
            => \A n \in DOMAIN NODES' :
                    caller'[c].request_id \notin NODES'[n].response_queues
       /\ \A m \in Replies :
            (/\ HandleReply(m)
             /\ \E c \in CallerOf(m.request_id) : Returned(c))
            => UNCHANGED <<nodes_lock, NODES, queues, caller, next_id>>]_vars

\* ------------------------------------------------------------------ C15
\* C15 as stated: no thread holds NODES_LOCK in the step in which it emits a
\* message to a node, nor while it waits for a node's reply.
C15_NoSendUnderLock ==
    [][\A c \in Callers :
        /\ Emit(c) => nodes_lock # c
        /\ caller[c].pc = "wait" => nodes_lock # c]_vars

\* ------------------------------------------- files: upload, share, download
\* Block data of the file operations keep file_id, owner_id, action and the
\* user a share names.  Every file has the chunks of Plaintexts, encrypted
\* under FileKey and recorded on RecordedPeers in that order.  A chunk of
\* bytes is a sequence: an encrypted chunk is key, plaintext, tag (tag 1 when
\* authentic), standing for nonce || ciphertext || tag of AES-256-GCM.

Users == {"alice", "bob"}

FileKey == 7

Plaintexts == << <<1>>, <<2>> >>

RecordedPeers == <<"n1", "n2">>

encrypt_chunk(plaintext, key) == <<key>> \o plaintext \o <<1>>

\* AESGCM.decrypt: InvalidTag unless the bytes are authentic under the key
decrypt_chunk(encrypted_data, key) ==
    IF encrypted_data[1] = key /\ encrypted_data[Len(encrypted_data)] = 1
    THEN [ok |-> TRUE, data |-> SubSeq(encrypted_data, 2, Len(encrypted_data) - 1)]
    ELSE [ok |-> FALSE, data |-> <<>>]

\* a pairing that carries an odd last node up unhashed
PairUpCarryOdd(layer) ==
    [k \in 1..((Len(layer) + 1) \div 2) |->
        IF 2 * k <= Len(layer) THEN sha256(layer[2 * k - 1] \o layer[2 * k])
        ELSE layer[2 * k - 1]]

\* one pass of the while loop of compute_merkle_root: an odd last node is
\* appended once more, then every pair is hashed
PairUp(layer) ==
    LET even == IF Len(layer) % 2 = 1
                THEN Append(layer, layer[Len(layer)]) ELSE layer
    IN  [k \in 1..(Len(even) \div 2) |-> sha256(even[2 * k - 1] \o even[2 * k])]

RECURSIVE MerkleLayer(_)
\* chunker.compute_merkle_root: the loop runs while len(layer) > 1
MerkleLayer(layer) ==
    IF Len(layer) <= 1 THEN layer ELSE MerkleLayer(PairUp(layer))

compute_merkle_root(chunk_hashes) ==
    IF chunk_hashes = <<>> THEN sha256(<<>>) ELSE MerkleLayer(chunk_hashes)[1]

\* what upload_file records for chunk k and for the file
EncryptedHash(k) == sha256(encrypt_chunk(Plaintexts[k], FileKey))

OriginalHash(k) == sha256(Plaintexts[k])

OriginalHashes == [k \in 1..Len(Plaintexts) |-> OriginalHash(k)]

MerkleRoot == compute_merkle_root(OriginalHashes)

\* a digest of other content
OtherHash == sha256(<<0>>)

\* the plaintext hashes and the Merkle root a download finds in the ledger:
\* the recorded ones, or others (the ledger file can be rewritten, C10)
FoundHashes ==
    {h \in [1..Len(Plaintexts) -> {OtherHash} \cup Range(OriginalHashes)] :
        \A k \in 1..Len(Plaintexts) : h[k] \in {OtherHash, OriginalHash(k)}}

FoundRoots == {MerkleRoot, OtherHash}

\* what a peer asked for chunk k can answer
Answers == {"timeout", "disconnected", "missing", "data", "corrupt", "other"}

Yields(answer) == answer \in {"data", "corrupt", "other"}

OtherChunk(k) == IF k = 1 THEN Len(Plaintexts) ELSE 1

\* the stored chunk, the stored chunk with a broken byte, another chunk of
\* the same file
BytesOf(answer, k) ==
    IF answer = "data" THEN encrypt_chunk(Plaintexts[k], FileKey)
    ELSE IF answer = "corrupt"
    THEN <<FileKey>> \o Plaintexts[k] \o <<0>>
    ELSE encrypt_chunk(Plaintexts[OtherChunk(k)], FileKey)

\* first block whose data carry the file id, 0 when there is none
FindFile(c, file_id) ==
    IF \E i \in 1..Len(c) : c[i].data.file_id = file_id
    THEN CHOOSE i \in 1..Len(c) :
            /\ c[i].data.file_id = file_id
            /\ \A j \in 1..(i - 1) : c[j].data.file_id # file_id
    ELSE 0

FileIds == {chain[i].data.file_id : i \in 1..Len(chain)} \cup {Len(chain) + 1}

FileData(file_id, owner_id, action, shared_with) ==
    [file_id |-> file_id, owner_id |-> owner_id, action |-> action,
     shared_with |-> shared_with]

HasRecord(c, file_id, action, shared_with) ==
    \E i \in 1..Len(c) :
        /\ c[i].data.action = action
        /\ c[i].data.file_id = file_id
        /\ c[i].data.shared_with = shared_with

AccessAllowedIfShared(c, file_meta, user) ==
    \/ file_meta.owner_id = user
    \/ HasRecord(c, file_meta.file_id, "share", user)

\* file_meta.get("owner_id") != g.current_user.id is the only test
AccessAllowed(c, file_meta, user) == file_meta.owner_id = user

\* upload_file: a fresh file id, one confirmation per peer that stored chunks
Upload(user) ==
    /\ dl.pc = "idle"
    /\ \E timestamp \in Times :
        add_block(FileData(Len(chain) + 1, user, "upload", "-"),
                  InitialConfirmations(RecordedPeers), Len(RecordedPeers),
                  timestamp)
    /\ UNCHANGED dl

\* share_file
Share(user, file_id, target) ==
    LET i == FindFile(chain, file_id)
    IN  /\ dl.pc = "idle"
        /\ i # 0
        /\ chain[i].data.owner_id = user
        /\ ~HasRecord(chain, file_id, "delete", "-")
        /\ target # user
        /\ ~HasRecord(chain, file_id, "share", target)
        /\ \E timestamp \in Times :
            add_block(FileData(file_id, user, "share", target), <<>>, 1, timestamp)
        /\ UNCHANGED dl

\* unshare_file
Unshare(user, file_id, target) ==
    LET i == FindFile(chain, file_id)
    IN  /\ dl.pc = "idle"
        /\ i # 0
        /\ chain[i].data.owner_id = user
        /\ \E timestamp \in Times :
            add_block(FileData(file_id, user, "unshare", target), <<>>, 1, timestamp)
        /\ UNCHANGED dl

\* delete_file, the ledger part
Delete(user, file_id) ==
    LET i == FindFile(chain, file_id)
    IN  /\ dl.pc = "idle"
        /\ i # 0
        /\ chain[i].data.owner_id = user
        /\ ~HasRecord(chain, file_id, "delete", "-")
        /\ \E timestamp \in Times :
            add_block(FileData(file_id, user, "delete", "-"), <<>>, 1, timestamp)
        /\ UNCHANGED dl

\* the X-User-Password header of a download: the password the file key was
\* wrapped under, or another one
Passwords == {"secret", "guess"}

\* PBKDF2 with the user's salt: one key for each password
derive_key_from_password(password) == IF password = "secret" THEN 11 ELSE 12

\* metadata["encrypted_file_key"], written by the upload
encrypted_file_key == encrypt_chunk(<<FileKey>>, derive_key_from_password("secret"))

decrypt_file_key(encrypted, user_key) == decrypt_chunk(encrypted, user_key)

\* the answer to a failed unwrap: backend/app.py has a handler around the
\* unwrap (400), in server.py the exception reaches the handler of the whole
\* download (500, str(e))
UnwrapFailed(impl) == IF impl = "backend" THEN "wrong_secret" ELSE "error"

\* download_file up to the key unwrap, in server.py ("server") and in
\* backend/app.py ("backend")
DownloadStart(user, file_id, impl, password, rec_hash, rec_root) ==
    LET i == FindFile(chain, file_id)
        request == [NoDownload EXCEPT !.impl = impl, !.user = user,
                                      !.file_id = file_id,
                                      !.password = password]
        file_key == decrypt_file_key(encrypted_file_key,
                                     derive_key_from_password(password))
    IN  /\ dl.pc = "idle"
        /\ dl' = IF i = 0
                 THEN [request EXCEPT !.pc = "done", !.status = "not_found"]
                 ELSE IF ~AccessAllowed(chain, chain[i].data, user)
                 THEN [request EXCEPT !.pc = "done", !.status = "access_denied"]
                 ELSE IF ~file_key.ok
                 THEN [request EXCEPT !.pc = "done",
                                      !.status = UnwrapFailed(impl)]
                 ELSE [request EXCEPT !.pc = "fetch", !.unwrapped = TRUE,
                                      !.rec_hash = rec_hash, !.rec_root = rec_root,
                                      !.i = 1, !.j = 1]
        /\ UNCHANGED ledger_vars

\* the loop over the chunk's recorded peers has no peer left after peer j
Exhausted(j) == j >= Len(RecordedPeers)

Flatten(chunks) ==
    LET RECURSIVE Join(_, _)
        Join(a, b) == IF a > b THEN <<>>
                      ELSE IF a = b THEN chunks[a]
                      ELSE Join(a, (a + b) \div 2) \o Join((a + b) \div 2 + 1, b)
    IN  Join(1, Len(chunks))

\* the download moves to the next chunk, or to the Merkle check after the last
NextChunk(d) ==
    IF d.i < Len(Plaintexts)
    THEN [d EXCEPT !.i = d.i + 1, !.j = 1]
    ELSE [d EXCEPT !.pc = "merkle"]

\* server.py download_file: one pass of "for node_info in nodes", and the
\* "if not chunk_retrieved" after the last peer
FetchServer(d, answer) ==
    LET bytes == BytesOf(answer, d.i)
        plain == decrypt_chunk(bytes, FileKey)
    IN  IF ~Yields(answer)
        THEN IF Exhausted(d.j)
             THEN [d EXCEPT !.pc = "done", !.status = "chunk_unavailable"]
             ELSE [d EXCEPT !.j = d.j + 1]
        ELSE IF ~plain.ok
        THEN [d EXCEPT !.pc = "done", !.status = "error",
                       !.decrypted = @ \cup {<<d.i, bytes>>}]
        ELSE NextChunk([d EXCEPT !.decrypted = @ \cup {<<d.i, bytes>>},
                                 !.got = Append(@, plain.data)])

\* backend: one pass of "for peer in peers_to_try" of uploader.fetch_chunk,
\* and what generate() of download_file does with the bytes it returns
FetchBackend(d, answer) ==
    LET bytes == BytesOf(answer, d.i)
        plain == decrypt_chunk(bytes, FileKey)
    IN  IF ~Yields(answer)
        THEN IF Exhausted(d.j)
             THEN [d EXCEPT !.pc = "done", !.status = "chunk_unavailable"]
             ELSE [d EXCEPT !.j = d.j + 1]
        ELSE IF sha256(bytes) # EncryptedHash(d.i)
        THEN [d EXCEPT !.pc = "done", !.status = "integrity"]
        ELSE IF ~plain.ok
        THEN [d EXCEPT !.pc = "done", !.status = "error",
                       !.decrypted = @ \cup {<<d.i, bytes>>}]
        ELSE IF sha256(plain.data) # d.rec_hash[d.i]
        THEN [d EXCEPT !.pc = "done", !.status = "integrity",
                       !.decrypted = @ \cup {<<d.i, bytes>>}]
        ELSE NextChunk([d EXCEPT !.decrypted = @ \cup {<<d.i, bytes>>},
                                 !.got = Append(@, plain.data),
                                 !.released = @ \o plain.data])

\* one request to the next recorded peer of the current chunk
Fetch(answer) ==
    LET entry == [chunk |-> dl.i, peer |-> RecordedPeers[dl.j], answer |-> answer]
        asked == [dl EXCEPT !.log = Append(@, entry)]
    IN  /\ dl.pc = "fetch"
        /\ dl' = IF dl.impl = "server" THEN FetchServer(asked, answer)
                                       ELSE FetchBackend(asked, answer)
        /\ UNCHANGED ledger_vars

GotHashes(d) == [k \in 1..Len(d.got) |-> sha256(d.got[k])]

\* server.py: mismatch is answered with 500, otherwise the file is returned
MerkleServer(d) ==
    IF compute_merkle_root(GotHashes(d)) # d.rec_root
    THEN [d EXCEPT !.pc = "done", !.status = "integrity"]
    ELSE [d EXCEPT !.pc = "done", !.status = "ok", !.released = Flatten(d.got)]

\* backend: the chunks are out already, a mismatch is logged
MerkleBackend(d) == [d EXCEPT !.pc = "done", !.status = "ok"]

VerifyMerkle ==
    /\ dl.pc = "merkle"
    /\ dl' = IF dl.impl = "server" THEN MerkleServer(dl) ELSE MerkleBackend(dl)
    /\ UNCHANGED ledger_vars

NextD ==
    \/ \E user \in Users : Upload(user) /\ UNCHANGED outside_files
    \/ \E user, target \in Users, file_id \in FileIds :
            Share(user, file_id, target) /\ UNCHANGED outside_files
    \/ \E user, target \in Users, file_id \in FileIds :
            Unshare(user, file_id, target) /\ UNCHANGED outside_files
    \/ \E user \in Users, file_id \in FileIds :
            Delete(user, file_id) /\ UNCHANGED outside_files
    \/ \E user \in Users, file_id \in FileIds, impl \in {"server", "backend"},
          password \in Passwords, rec_hash \in FoundHashes,
          rec_root \in FoundRoots :
            DownloadStart(user, file_id, impl, password, rec_hash, rec_root)
                /\ UNCHANGED outside_files
    \/ \E answer \in Answers : Fetch(answer) /\ UNCHANGED outside_files
    \/ VerifyMerkle /\ UNCHANGED outside_files

SpecD == Init /\ [][NextD]_vars

\* ------------------------------------------------------------------ C16
\* the owner recorded when the file was uploaded
UploadOwner(file_id) ==
    LET i == CHOOSE i \in 1..Len(chain) :
                chain[i].data.file_id = file_id /\ chain[i].data.action = "upload"
    IN  chain[i].data.owner_id

Uploaded(file_id) ==
    \E i \in 1..Len(chain) :
        chain[i].data.file_id = file_id /\ chain[i].data.action = "upload"

LogBytes(e) == BytesOf(e.answer, e.chunk)

\* the peer's bytes hash to the recorded ciphertext hash
CiphertextMatches(e) ==
    Yields(e.answer) /\ sha256(LogBytes(e)) = EncryptedHash(e.chunk)

\* C17 as stated: once a retrieved chunk's ciphertext hash matched and its
\* decrypted plaintext does not hash to the recorded plaintext hash, no byte
\* of the file is returned, earlier chunks included, and the retrieval ends
\* with an integrity failure.
C17_PlaintextMismatchFails ==
    (\E e \in Range(dl.log) :
        /\ CiphertextMatches(e)
        /\ sha256(decrypt_chunk(LogBytes(e), FileKey).data) # dl.rec_hash[e.chunk])
    => /\ dl.released = <<>>
       /\ dl.pc = "done" => dl.status = "integrity"

\* ------------------------------------------------------------------ C18
AllChunksVerified ==
    /\ dl.got = Plaintexts
    /\ dl.rec_hash = OriginalHashes
    /\ \A k \in 1..Len(Plaintexts) :
        \E e \in Range(dl.log) : e.chunk = k /\ CiphertextMatches(e)

\* C18 as stated: when every chunk was retrieved and verified on its own and
\* the Merkle root of the plaintext hashes differs from the stored root, the
\* retrieval ends with an integrity failure and no byte is returned.
C18_MerkleMismatchFails ==
    (/\ AllChunksVerified
     /\ compute_merkle_root(GotHashes(dl)) # dl.rec_root)
    => /\ dl.released = <<>>
       /\ dl.pc = "done" => dl.status = "integrity"

\* ------------------------------------------------------------------ C19
LastPeer == RecordedPeers[Len(RecordedPeers)]

\* the request after request idx goes to the next peer for the same chunk
MovesOn(idx) ==
    IF idx < Len(dl.log)
    THEN dl.log[idx + 1].chunk = dl.log[idx].chunk
    ELSE dl.pc = "fetch" /\ dl.i = dl.log[idx].chunk

\* C19 as stated: bytes whose hash differs from the recorded ciphertext hash
\* are not decrypted, and unless they came from the chunk's last recorded
\* peer the next recorded peer is asked for the chunk.
C19_WrongBytesDiscarded ==
    \A idx \in 1..Len(dl.log) :
        (/\ Yields(dl.log[idx].answer)
         /\ ~CiphertextMatches(dl.log[idx]))
        => /\ <<dl.log[idx].chunk, LogBytes(dl.log[idx])>> \notin dl.decrypted
           /\ dl.log[idx].peer # LastPeer => MovesOn(idx)

\* ------------------------------------------------------------------ C20
\* how many requests up to request idx were for its chunk
Attempt(idx) ==
    Cardinality({m \in 1..idx : dl.log[m].chunk = dl.log[idx].chunk})

\* peer p was asked for chunk k and did not return the recorded ciphertext
FailedToYield(k, p) ==
    \E e \in Range(dl.log) : e.chunk = k /\ e.peer = p /\ ~CiphertextMatches(e)

AllPeersFailed(k) == \A p \in Range(RecordedPeers) : FailedToYield(k, p)

\* C20 as stated: the peers of a chunk are asked in recorded order; a peer
\* that times out, is disconnected or reports the chunk missing is followed by
\* the next recorded peer; and the retrieval ends chunk-unavailable exactly
\* when every recorded peer of some chunk failed to yield the chunk.
C20_PeersInOrder ==
    /\ \A idx \in 1..Len(dl.log) :
        /\ dl.log[idx].peer = RecordedPeers[Attempt(idx)]
        /\ (~Yields(dl.log[idx].answer) /\ dl.log[idx].peer # LastPeer)
            => /\ MovesOn(idx)
               /\ idx < Len(dl.log) =>
                    dl.log[idx + 1].peer = RecordedPeers[Attempt(idx) + 1]
    /\ dl.status = "chunk_unavailable"
        <=> \E k \in 1..Len(Plaintexts) : AllPeersFailed(k)

\* ================================================================ upload
\* config.py: REPLICATION_FACTOR = int(os.environ.get("REPLICATION", 3))
REPLICATION_FACTOR == 3

Min(a, b) == IF a <= b THEN a ELSE b

\* what get_active_nodes (server.py) or get_peers (uploader.py) can return
NodeLists == {<<>>, <<"n1">>, <<"n1", "n2", "n3", "n4">>}

\* get_active_nodes of server.py with six nodes connected as well
ActiveNodeLists == NodeLists \cup {<<"n1", "n2", "n3", "n4", "n5", "n6">>}

NodeListsOf(impl) == IF impl = "server" THEN ActiveNodeLists ELSE NodeLists

\* how a store request to a node can end, as send_chunk_to_node sees it:
\* chunk_stored with success, chunk_stored without, no reply in time
StoreOutcomes == {"stored", "failed", "timeout"}

\* how upload_chunk_to_peer can end: result["status"]
PeerStatuses == {"ok", "failed"}

\* send_chunk_to_node returns response.get('success', False), False on Empty
Accepted(outcome) == outcome = "stored"

HasKey(node_confirmations, node_id) ==
    \E n \in 1..Len(node_confirmations) :
        node_confirmations[n].node_id = node_id

TrackOverwrite(node_confirmations, node_id, encrypted_hash) ==
    IF HasKey(node_confirmations, node_id)
    THEN [n \in 1..Len(node_confirmations) |->
            IF node_confirmations[n].node_id = node_id
            THEN [node_confirmations[n] EXCEPT !.chunk_hashes = <<encrypted_hash>>]
            ELSE node_confirmations[n]]
    ELSE Append(node_confirmations,
                [node_id |-> node_id, chunk_hashes |-> <<encrypted_hash>>])

\* if node_id not in node_confirmations: node_confirmations[node_id] = []
\* node_confirmations[node_id].append(encrypted_hash)
Track(node_confirmations, node_id, encrypted_hash) ==
    IF HasKey(node_confirmations, node_id)
    THEN [n \in 1..Len(node_confirmations) |->
            IF node_confirmations[n].node_id = node_id
            THEN [node_confirmations[n] EXCEPT
                    !.chunk_hashes = Append(@, encrypted_hash)]
            ELSE node_confirmations[n]]
    ELSE Append(node_confirmations,
                [node_id |-> node_id, chunk_hashes |-> <<encrypted_hash>>])

\* the list comprehension over node_confirmations.items()
UploadConfirmations(node_confirmations) ==
    [n \in 1..Len(node_confirmations) |->
        [node_id |-> node_confirmations[n].node_id,
         chunk_hashes |-> node_confirmations[n].chunk_hashes]]

\* the node ids of the confirmations, which is what the ledger model keeps
ConfirmingNodes(initial_confirmations) ==
    [n \in 1..Len(initial_confirmations) |-> initial_confirmations[n].node_id]

\* the results select_peers can give for these peers: all of them when there
\* are at most count, else count of them, whichever the latencies favour
SelectedSets(peers, count) ==
    IF Len(peers) <= count THEN {Range(peers)}
    ELSE {S \in SUBSET Range(peers) : Cardinality(S) = count}

\* the upload request arrives; server.py answers 503 when no node is active
UploadBegin(impl, user, nodes) ==
    /\ ul.pc = "idle"
    /\ ul' = IF impl = "server" /\ Len(nodes) < 1
             THEN [NoUpload EXCEPT !.pc = "done", !.impl = impl, !.user = user,
                                   !.status = "unavailable"]
             ELSE [NoUpload EXCEPT !.pc = IF impl = "server" THEN "store"
                                          ELSE "select",
                                   !.impl = impl, !.user = user, !.nodes = nodes,
                                   !.i = 1, !.j = 1]
    /\ UNCHANGED ledger_vars

\* the chunk loop has handled chunk ul.i: append its record, go to the next
ChunkDone(u, record) ==
    [u EXCEPT !.chunks = Append(@, record), !.assigned = <<>>, !.selected = {},
              !.j = 1, !.i = @ + 1,
              !.pc = IF u.i = Len(Plaintexts) THEN "commit"
                     ELSE IF u.impl = "server" THEN "store" ELSE "select"]

\* server.py: one pass of `for node in nodes[:replication]`
StoreServer(outcome) ==
    LET node_id == ul.nodes[ul.j]
        replication == Min(REPLICATION_FACTOR, Len(ul.nodes))
        sent == [ul EXCEPT
                    !.log = Append(@, [chunk |-> ul.i, peer |-> node_id,
                                       outcome |-> outcome]),
                    !.assigned = IF Accepted(outcome)
                                 THEN Append(@, node_id) ELSE @,
                    !.node_confirmations =
                        IF Accepted(outcome)
                        THEN Track(@, node_id, EncryptedHash(ul.i)) ELSE @,
                    !.j = @ + 1]
    IN  /\ ul.pc = "store"
        /\ ul.impl = "server"
        /\ ul' = IF ul.j < replication THEN sent
                 ELSE ChunkDone(sent, [index |-> ul.i, hash |-> OriginalHash(ul.i),
                                       encrypted_hash |-> EncryptedHash(ul.i),
                                       nodes |-> sent.assigned])
        /\ UNCHANGED ledger_vars

\* uploader.distribute_chunk up to the parallel uploads: get_peers and
\* select_peers; no peers or none selected gives no assignments
SelectBackend(selected) ==
    /\ ul.pc = "select"
    /\ selected \in SelectedSets(ul.nodes, REPLICATION_FACTOR)
    /\ ul' = IF selected = {}
             THEN ChunkDone(ul, [index |-> ul.i, hash |-> OriginalHash(ul.i),
                                 encrypted_hash |-> EncryptedHash(ul.i),
                                 nodes |-> <<>>])
             ELSE [ul EXCEPT !.pc = "store", !.selected = selected]
    /\ UNCHANGED ledger_vars

\* uploader.distribute_chunk: the next upload_chunk_to_peer to complete
StoreBackend(node_id, status) ==
    LET result == [node_id |-> node_id, status |-> status]
        sent == [ul EXCEPT
                    !.log = Append(@, [chunk |-> ul.i, peer |-> node_id,
                                       outcome |-> status]),
                    !.assigned = Append(@, result),
                    !.selected = @ \ {node_id}]
    IN  /\ ul.pc = "store"
        /\ ul.impl = "backend"
        /\ node_id \in ul.selected
        /\ ul' = IF sent.selected # {} THEN sent
                 ELSE ChunkDone(sent, [index |-> ul.i, hash |-> OriginalHash(ul.i),
                                       encrypted_hash |-> EncryptedHash(ul.i),
                                       nodes |-> sent.assigned])
        /\ UNCHANGED ledger_vars

\* the metadata block is handed to the ledger; an exception gives a 500
Commit(timestamp) ==
    LET initial_confirmations ==
            IF ul.impl = "server"
            THEN UploadConfirmations(ul.node_confirmations) ELSE <<>>
        total_nodes == IF ul.impl = "server" THEN Len(ul.nodes) ELSE 1
    IN  /\ ul.pc = "commit"
        /\ add_block(FileData(Len(chain) + 1, ul.user, "upload", "-"),
                     InitialConfirmations(ConfirmingNodes(initial_confirmations)),
                     total_nodes, timestamp)
        /\ ul' = [ul EXCEPT !.pc = "done",
                            !.initial_confirmations = initial_confirmations,
                            !.handed = TRUE,
                            !.status = IF last'.ret = "block"
                                       THEN "success" ELSE "error"]

NextU ==
    \/ \E impl \in {"server", "backend"}, user \in Users :
        \E nodes \in NodeListsOf(impl) :
            UploadBegin(impl, user, nodes) /\ UNCHANGED outside_uploads
    \/ \E outcome \in StoreOutcomes :
            StoreServer(outcome) /\ UNCHANGED outside_uploads
    \/ \E selected \in SUBSET Range(ul.nodes) :
            SelectBackend(selected) /\ UNCHANGED outside_uploads
    \/ \E node_id \in Range(ul.nodes), status \in PeerStatuses :
            StoreBackend(node_id, status) /\ UNCHANGED outside_uploads
    \/ \E timestamp \in Times : Commit(timestamp) /\ UNCHANGED outside_uploads

SpecU == Init /\ [][NextU]_vars

\* ------------------------------------------------------------------ C21
\* the peers that acknowledged storing chunk k during the upload
AcceptedBy(k) ==
    {e.peer : e \in {x \in Range(ul.log) :
                        x.chunk = k /\ x.outcome \in {"stored", "ok"}}}

\* the peers chunk record k of the metadata lists
ListedPeers(k) ==
    IF ul.impl = "server" THEN Range(ul.chunks[k].nodes)
    ELSE {a.node_id : a \in Range(ul.chunks[k].nodes)}

\* C21 as stated: the ledger holds the file's metadata block only if every
\* chunk of the file was accepted by at least one peer, and each of its chunk
\* records lists such a peer.
C21_EveryChunkPlaced ==
    chain # <<>> =>
        \A k \in 1..Len(Plaintexts) :
            /\ AcceptedBy(k) # {}
            /\ ListedPeers(k) \cap AcceptedBy(k) # {}

\* ------------------------------------------------------------------ C22
\* C22 as stated: a peer is in a chunk's recorded replica list only if it
\* acknowledged storing that chunk during the upload.
C22_OnlyAcceptingPeersRecorded ==
    \A k \in 1..Len(ul.chunks) : ListedPeers(k) \subseteq AcceptedBy(k)

\* ------------------------------------------------------------------ C23
AcceptingPeers == UNION {AcceptedBy(k) : k \in 1..Len(Plaintexts)}

\* C23: the confirmations upload_file of server.py passes to add_block hold
\* one confirmation for each peer that accepted a chunk of the file, none for
\* another peer, and each lists exactly the ciphertext hashes of the chunks
\* its peer acknowledged, once each.
C23_OneConfirmationPerAcceptingPeer ==
    (ul.handed /\ ul.impl = "server") =>
        LET c == ul.initial_confirmations
        IN  /\ {c[n].node_id : n \in 1..Len(c)} = AcceptingPeers
            /\ Len(c) = Cardinality(AcceptingPeers)
            /\ \A n \in 1..Len(c) :
                LET acknowledged == {k \in 1..Len(Plaintexts) :
                                        c[n].node_id \in AcceptedBy(k)}
                IN  /\ Range(c[n].chunk_hashes) =
                            {EncryptedHash(k) : k \in acknowledged}
                    /\ Len(c[n].chunk_hashes) = Cardinality(acknowledged)

C23_Witness ==
    /\ ul.handed /\ ul.impl = "server" /\ ul.status = "success"
    /\ Len(ul.initial_confirmations) = 2
    /\ Len(ul.initial_confirmations[1].chunk_hashes) = 2
    /\ Len(ul.initial_confirmations[2].chunk_hashes) = 1
    /\ \E e \in Range(ul.log) : e.outcome = "timeout"

\* ========================================================= storage nodes
\* the programs a peer can run: node/storage_node.py,
\* node_package/storage_node.py, node_package/websocket_node.py
Kinds == {"http", "package", "duplex"}

\* chunk payloads a request can carry
Payloads == {<<>>, <<1>>, <<2>>}

\* a content address as a string: the digest it spells and how it spells it.
\* "lower" is hexdigest() output; "upper" has its letters in upper case;
\* "dot" is "./" before the lower-case digits; "short" is their first half
Forms == {"lower", "upper", "dot", "short"}

Address(digest, form) == [digest |-> digest, form |-> form]

\* no chunk_hash field in the request
None == Address(<<>>, "none")

\* a URL path segment cannot hold "/"
RoutableForms == Forms \ {"dot"}

AddressesIn(forms) == {Address(sha256(d), f) : d \in Payloads, f \in forms}

\* hashlib.sha256(data).hexdigest()
hexdigest(data) == Address(sha256(data), "lower")

\* str.lower()
lower(a) == IF a.form = "upper" THEN [a EXCEPT !.form = "lower"] ELSE a

\* len(chunk_hash) == 64
Len64(a) == a.form \in {"lower", "upper"}

\* len(chunk_hash) == 64 and all(c in "0123456789abcdef" for c in chunk_hash)
IsHexDigest(a) == a.form = "lower"

\* get_chunk_path: STORAGE_DIR / chunk_hash[:2] / f"{chunk_hash}.chunk"
get_chunk_path(chunk_hash) == chunk_hash

\* self.storage_dir / chunk_hash: pathlib drops "." components
StoragePath(chunk_hash) ==
    IF chunk_hash.form = "dot" THEN [chunk_hash EXCEPT !.form = "lower"]
    ELSE chunk_hash

\* chunk_path.exists()
PathExists(files, path) == \E f \in files : f.name = path

ReadFile(files, path) == (CHOOSE f \in files : f.name = path).data

\* open(chunk_path, "wb") and f.write(chunk_data)
WriteFile(files, path, data) ==
    {f \in files : f.name # path} \cup {[name |-> path, data |-> data]}

\* chunk_path.unlink()
Unlink(files, path) == {f \in files : f.name # path}

Seen(op, address, data) ==
    [NoRequestSeen EXCEPT !.op = op, !.address = address, !.data = data]

\* node/storage_node.py, node_package/storage_node.py:
\* expected_hash and actual_hash != expected_hash.lower()
HashDiffers(actual_hash, expected_hash) ==
    expected_hash # None /\ actual_hash # lower(expected_hash)

WireHashDiffersNever(actual_hash, chunk_hash) == FALSE

\* websocket_node.py: actual_hash != chunk_hash
WireHashDiffers(actual_hash, chunk_hash) == actual_hash # chunk_hash

\* POST /store of node/storage_node.py and node_package/storage_node.py
store_chunk(expected_hash, chunk_data) ==
    LET actual_hash == hexdigest(chunk_data)
        chunk_path == get_chunk_path(actual_hash)
        seen == [Seen("store", expected_hash, chunk_data) EXCEPT
                    !.existed = PathExists(peer.files, chunk_path)]
    IN  /\ peer.kind \in {"http", "package"}
        /\ peer' =
            IF chunk_data = <<>>
            THEN [peer EXCEPT !.last = [seen EXCEPT !.status = "no_data"]]
            ELSE IF HashDiffers(actual_hash, expected_hash)
            THEN [peer EXCEPT !.last = [seen EXCEPT !.status = "hash_mismatch"]]
            ELSE IF PathExists(peer.files, chunk_path)
            THEN [peer EXCEPT !.last = [seen EXCEPT !.status = "exists"]]
            ELSE [peer EXCEPT
                    !.files = WriteFile(@, chunk_path, chunk_data),
                    !.last = [seen EXCEPT !.status = "stored", !.wrote = TRUE]]

\* store_chunk event of websocket_node.py; the reply only has success
handle_store_chunk(chunk_hash, chunk_data) ==
    LET actual_hash == hexdigest(chunk_data)
        chunk_path == StoragePath(chunk_hash)
        seen == [Seen("store", chunk_hash, chunk_data) EXCEPT
                    !.existed = PathExists(peer.files, chunk_path)]
    IN  /\ peer.kind = "duplex"
        /\ peer' =
            IF WireHashDiffers(actual_hash, chunk_hash)
            THEN [peer EXCEPT !.last = [seen EXCEPT !.status = "failure"]]
            ELSE [peer EXCEPT
                    !.files = WriteFile(@, chunk_path, chunk_data),
                    !.last = [seen EXCEPT !.status = "success", !.wrote = TRUE]]

\* GET /retrieve/<chunk_hash>
retrieve_chunk(address) ==
    LET chunk_hash == lower(address)
        chunk_path == get_chunk_path(chunk_hash)
        seen == [Seen("retrieve", address, <<>>) EXCEPT
                    !.existed = PathExists(peer.files, chunk_path)]
        valid == IF peer.kind = "http" THEN IsHexDigest(chunk_hash)
                 ELSE Len64(chunk_hash)
    IN  /\ peer.kind \in {"http", "package"}
        /\ peer' =
            IF ~valid
            THEN [peer EXCEPT !.last = [seen EXCEPT !.status = "invalid"]]
            ELSE IF ~PathExists(peer.files, chunk_path)
            THEN [peer EXCEPT !.last = [seen EXCEPT !.status = "not_found"]]
            ELSE IF /\ peer.kind = "http"
                    /\ hexdigest(ReadFile(peer.files, chunk_path)) # chunk_hash
            THEN [peer EXCEPT !.last = [seen EXCEPT !.status = "corrupted",
                                                    !.read = TRUE]]
            ELSE [peer EXCEPT !.last =
                    [seen EXCEPT !.status = "ok", !.read = TRUE,
                                 !.body = ReadFile(peer.files, chunk_path)]]

\* retrieve_chunk event of websocket_node.py
handle_retrieve_chunk(chunk_hash) ==
    LET chunk_path == StoragePath(chunk_hash)
        seen == [Seen("retrieve", chunk_hash, <<>>) EXCEPT
                    !.existed = PathExists(peer.files, chunk_path)]
    IN  /\ peer.kind = "duplex"
        /\ peer' =
            IF ~PathExists(peer.files, chunk_path)
            THEN [peer EXCEPT !.last = [seen EXCEPT !.status = "failure"]]
            ELSE [peer EXCEPT !.last =
                    [seen EXCEPT !.status = "success", !.read = TRUE,
                                 !.body = ReadFile(peer.files, chunk_path)]]

\* GET /exists/<chunk_hash>
chunk_exists(address) ==
    LET chunk_path == get_chunk_path(lower(address))
        exists == PathExists(peer.files, chunk_path)
        seen == [Seen("exists", address, <<>>) EXCEPT !.existed = exists]
    IN  /\ peer.kind \in {"http", "package"}
        /\ peer' = [peer EXCEPT !.last =
                        [seen EXCEPT !.status = IF exists THEN "exists_true"
                                                ELSE "exists_false"]]

\* DELETE /chunk/<chunk_hash> of node/storage_node.py
delete_chunk(address) ==
    LET chunk_path == get_chunk_path(lower(address))
        seen == [Seen("delete", address, <<>>) EXCEPT
                    !.existed = PathExists(peer.files, chunk_path)]
    IN  /\ peer.kind = "http"
        /\ peer' =
            IF ~PathExists(peer.files, chunk_path)
            THEN [peer EXCEPT !.last = [seen EXCEPT !.status = "not_found"]]
            ELSE [peer EXCEPT !.files = Unlink(@, chunk_path),
                              !.last = [seen EXCEPT !.status = "deleted",
                                                    !.deleted = TRUE]]

\* delete_chunk event of websocket_node.py; it sends no reply
handle_delete_chunk(chunk_hash) ==
    LET chunk_path == StoragePath(chunk_hash)
        seen == [Seen("delete", chunk_hash, <<>>) EXCEPT
                    !.existed = PathExists(peer.files, chunk_path)]
    IN  /\ peer.kind = "duplex"
        /\ peer' =
            IF PathExists(peer.files, chunk_path)
            THEN [peer EXCEPT !.files = Unlink(@, chunk_path),
                              !.last = [seen EXCEPT !.status = "none",
                                                    !.deleted = TRUE]]
            ELSE [peer EXCEPT !.last = [seen EXCEPT !.status = "none"]]

\* verify_chunk event of websocket_node.py
handle_verify_chunk(chunk_hash) ==
    LET chunk_path == StoragePath(chunk_hash)
        seen == [Seen("verify", chunk_hash, <<>>) EXCEPT
                    !.existed = PathExists(peer.files, chunk_path)]
    IN  /\ peer.kind = "duplex"
        /\ peer' =
            IF ~PathExists(peer.files, chunk_path)
            THEN [peer EXCEPT !.last = [seen EXCEPT !.status = "absent"]]
            ELSE [peer EXCEPT !.last =
                    [seen EXCEPT
                        !.read = TRUE,
                        !.status =
                            IF hexdigest(ReadFile(peer.files, chunk_path))
                                    = chunk_hash
                            THEN "valid" ELSE "not_valid"]]

\* the node process starts with an empty storage directory
PeerStart(kind) ==
    /\ peer.kind = "-"
    /\ peer' = [peer EXCEPT !.kind = kind]

NextN ==
    \/ \E kind \in Kinds : PeerStart(kind) /\ UNCHANGED outside_peer
    \/ \E expected_hash \in AddressesIn(RoutableForms) \cup {None},
          chunk_data \in Payloads :
            store_chunk(expected_hash, chunk_data) /\ UNCHANGED outside_peer
    \/ \E chunk_hash \in AddressesIn(Forms), chunk_data \in Payloads :
            handle_store_chunk(chunk_hash, chunk_data) /\ UNCHANGED outside_peer
    \/ \E address \in AddressesIn(RoutableForms) :
            retrieve_chunk(address) /\ UNCHANGED outside_peer
    \/ \E chunk_hash \in AddressesIn(Forms) :
            handle_retrieve_chunk(chunk_hash) /\ UNCHANGED outside_peer
    \/ \E address \in AddressesIn(RoutableForms) :
            chunk_exists(address) /\ UNCHANGED outside_peer
    \/ \E address \in AddressesIn(RoutableForms) :
            delete_chunk(address) /\ UNCHANGED outside_peer
    \/ \E chunk_hash \in AddressesIn(Forms) :
            handle_delete_chunk(chunk_hash) /\ UNCHANGED outside_peer
    \/ \E chunk_hash \in AddressesIn(Forms) :
            handle_verify_chunk(chunk_hash) /\ UNCHANGED outside_peer

SpecN == Init /\ [][NextN]_vars

\* ------------------------------------------------------------------ C24
Copies(data) == {f \in peer.files : f.data = data}

\* C24 as stated: a store of bytes the peer does not hold answers stored (the
\* duplex peer: success) and writes them; a store of bytes it already holds
\* answers exists and writes nothing; either way the peer then holds exactly
\* one copy, filed under the content address.
C24_StoreIdempotent ==
    (peer.last.op = "store" /\ peer.last.status \in {"stored", "exists", "success"})
    => /\ ~peer.last.existed =>
            peer.last.status \in {"stored", "success"} /\ peer.last.wrote
       /\ peer.last.existed =>
            peer.last.status = "exists" /\ ~peer.last.wrote
       /\ Copies(peer.last.data) =
            {[name |-> hexdigest(peer.last.data), data |-> peer.last.data]}

\* ------------------------------------------------------------------ C25
\* a store request that carries bytes and a content address they do not
\* hash to
Mismatching(request) ==
    /\ request.op = "store"
    /\ request.data # <<>>
    /\ request.address # None
    /\ request.address.digest # sha256(request.data)

C29_InvalidAddressRefused ==
    (/\ \/ peer.last.op \in {"retrieve", "exists", "delete", "verify"}
        \/ (peer.last.op = "store" /\ peer.kind = "duplex")
     /\ ~IsHexDigest(peer.last.address))
    => /\ peer.last.status \in {"invalid", "not_found", "failure", "absent",
                                "exists_false", "none"}
       /\ ~peer.last.read
       /\ ~peer.last.wrote
       /\ ~peer.last.deleted

\* ========================================================= select_peers
\* uploader.py: HEAD_TIMEOUT = 2.0 seconds, here in milliseconds
HEAD_TIMEOUT == 2000

\* uploader.py: MEASURE_MAX_WORKERS = 16
MEASURE_MAX_WORKERS == 16

\* float("inf"): larger than every measured round-trip time
inf == 1000000

\* what measure_rtt does for a peer: the value it returns and how long the
\* call takes, in milliseconds
Probe(rtt, took) == [rtt |-> rtt, took |-> took]

\* session.get(url, timeout=HEAD_TIMEOUT) raises after HEAD_TIMEOUT
TimesOut == Probe(inf, HEAD_TIMEOUT)

\* connection refused or a status other than 200, at once
Fails == Probe(inf, 1)

Answers_in(ms) == Probe(ms, ms)

\* how each peer can behave
ProbeChoices ==
    [A |-> {Answers_in(10), TimesOut},
     B |-> {Answers_in(20), TimesOut, Fails},
     C |-> {Answers_in(20), TimesOut},
     D |-> {Answers_in(30), TimesOut},
     E |-> {Answers_in(40), TimesOut}]

PeerLists == {<<>>, <<"A", "B">>, <<"A", "B", "C", "D", "E">>}

ProbesOf(peers) ==
    {f \in [Range(peers) -> UNION {ProbeChoices[p] : p \in Range(peers)}] :
        \A p \in Range(peers) : f[p] \in ProbeChoices[p]}

\* values of the parameters count and max_workers
Counts == {1, 3}

WorkerCounts == {2, MEASURE_MAX_WORKERS}

\* the orders in which a Python set can be iterated
Orders(S) ==
    {o \in [1..Cardinality(S) -> S] :
        \A i, j \in 1..Cardinality(S) : o[i] = o[j] => i = j}

Take(seq, n) == SubSeq(seq, 1, Min(n, Len(seq)))

RECURSIVE Filter(_, _)
\* [p for rtt, p in results if rtt < inf] (finite) or rtt == inf (not finite)
Filter(results, finite) ==
    IF results = <<>> THEN <<>>
    ELSE LET rest == Filter(Tail(results), finite)
         IN  IF (Head(results).rtt < inf) = finite
             THEN <<Head(results).peer>> \o rest ELSE rest

\* list.sort is stable: x goes behind the entries that are not larger
InsertByRtt(sorted, x) ==
    LET k == Cardinality({i \in 1..Len(sorted) : sorted[i].rtt <= x.rtt})
    IN  SubSeq(sorted, 1, k) \o <<x>> \o SubSeq(sorted, k + 1, Len(sorted))

RECURSIVE SortByRtt(_)
\* results.sort(key=lambda x: x[0])
SortByRtt(results) ==
    IF results = <<>> THEN <<>>
    ELSE InsertByRtt(SortByRtt(SubSeq(results, 1, Len(results) - 1)),
                     results[Len(results)])

\* the end of select_peers: sort, take the finite ones, fill with the rest
SelectFrom(results, count) ==
    LET sorted == SortByRtt(results)
        selected == Take(Filter(sorted, TRUE), count)
    IN  IF Len(selected) < count
        THEN selected \o Take(Filter(sorted, FALSE), count - Len(selected))
        ELSE selected

\* wait(futures.keys(), timeout=HEAD_TIMEOUT * 2)
WaitDeadline == HEAD_TIMEOUT * 2

\* the probe that completes next
NextToFinish(running) ==
    {t \in running : \A o \in running : t.finish <= o.finish}

\* select_peers is called: the short cuts, or every probe is submitted and
\* the pool's workers start the first ones
SelectCall(peers, probe, count, max_workers) ==
    LET workers == Min(max_workers, Len(peers))
    IN  /\ sp.pc = "idle"
        /\ sp' =
            IF peers = <<>> \/ Len(peers) <= count
            THEN [NoSelect EXCEPT !.pc = "returned", !.peers = peers,
                                  !.probe = probe, !.count = count,
                                  !.max_workers = max_workers,
                                  !.selected = peers]
            ELSE [NoSelect EXCEPT
                    !.pc = "wait", !.peers = peers, !.probe = probe,
                    !.count = count, !.max_workers = max_workers,
                    !.running = {[peer |-> peers[i],
                                  finish |-> probe[peers[i]].took]
                                 : i \in 1..workers},
                    !.queue = SubSeq(peers, workers + 1, Len(peers))]

\* a probe completes and its worker takes the next one from the queue; while
\* select_peers is in wait() the future counts as done
ProbeCompletes(t) ==
    /\ sp.pc \in {"wait", "shutdown"}
    /\ t \in NextToFinish(sp.running)
    /\ sp.pc = "wait" => t.finish <= WaitDeadline
    /\ sp' = [sp EXCEPT
                !.clock = t.finish,
                !.finished = @ \cup {t.peer},
                !.done = IF sp.pc = "wait" THEN @ \cup {t.peer} ELSE @,
                !.running =
                    IF sp.queue = <<>> THEN @ \ {t}
                    ELSE (@ \ {t}) \cup
                         {[peer |-> Head(sp.queue),
                           finish |-> t.finish + sp.probe[Head(sp.queue)].took]},
                !.queue = IF sp.queue = <<>> THEN <<>> ELSE Tail(@)]

\* wait() returns, when every future is done or at its timeout
WaitReturns ==
    /\ sp.pc = "wait"
    /\ \A t \in sp.running : t.finish >= WaitDeadline
    /\ sp' = [sp EXCEPT !.pc = "shutdown",
                        !.clock = IF sp.running = {} THEN @ ELSE WaitDeadline]

\* results: the done futures' values, then infinity for the futures not
\* done, each set in the order its iteration gives
Results(done_order, not_done_order) ==
    [i \in 1..Len(done_order) |->
        [rtt |-> sp.probe[done_order[i]].rtt, peer |-> done_order[i]]]
    \o [i \in 1..Len(not_done_order) |->
        [rtt |-> inf, peer |-> not_done_order[i]]]

\* the with block ends once the executor has run every probe; select_peers
\* sorts, selects and returns
SelectReturn ==
    /\ sp.pc = "shutdown"
    /\ sp.running = {}
    /\ \E done_order \in Orders(sp.done),
          not_done_order \in Orders(Range(sp.peers) \ sp.done) :
        LET results == Results(done_order, not_done_order)
        IN  sp' = [sp EXCEPT !.pc = "returned", !.results = results,
                            !.selected = SelectFrom(results, sp.count)]

NextP ==
    \/ \E peers \in PeerLists, count \in Counts, max_workers \in WorkerCounts :
        \E probe \in ProbesOf(peers) :
            SelectCall(peers, probe, count, max_workers)
                /\ UNCHANGED outside_probes
    \/ \E t \in sp.running : ProbeCompletes(t) /\ UNCHANGED outside_probes
    \/ WaitReturns /\ UNCHANGED outside_probes
    \/ SelectReturn /\ UNCHANGED outside_probes

SpecP == Init /\ [][NextP]_vars

\* ------------------------------------------------------------------ C26
\* the peers that answer the probe, and a peer's latency
FiniteLatency == {p \in Range(sp.peers) : sp.probe[p].rtt < inf}

Latency(p) == sp.probe[p].rtt

ScenarioD ==
    /\ sp.peers = <<"A", "B", "C", "D", "E">>
    /\ sp.count = 3
    /\ sp.probe = [A |-> Answers_in(10), B |-> TimesOut, C |-> Answers_in(20),
                   D |-> Answers_in(30), E |-> Answers_in(40)]

\* C26 as stated: select_peers returns all the peers when there are at most
\* count of them; otherwise count distinct input peers, first the peers with
\* finite latency in ascending order, lowest latencies first, and peers that
\* time out or fail only when fewer than count peers have finite latency;
\* in scenario D it returns A, C and D.
C26_LowestLatencyPeers ==
    sp.pc = "returned" =>
        LET sel == sp.selected
            k == Min(sp.count, Cardinality(FiniteLatency))
        IN  /\ Len(sp.peers) <= sp.count => sel = sp.peers
            /\ Len(sp.peers) > sp.count =>
                /\ Len(sel) = sp.count
                /\ Cardinality(Range(sel)) = sp.count
                /\ Range(sel) \subseteq Range(sp.peers)
                /\ \A i \in 1..k : sel[i] \in FiniteLatency
                /\ \A i \in 1..(k - 1) : Latency(sel[i]) <= Latency(sel[i + 1])
                /\ \A i \in 1..k : \A p \in FiniteLatency \ Range(sel) :
                        Latency(sel[i]) <= Latency(p)
            /\ ScenarioD => Range(sel) = {"A", "C", "D"}

\* ------------------------------------------------------------------ C27
\* C27 as stated: select_peers returns within the ceiling it sets for its
\* probes, twice the per-probe timeout, however many peers are slow and
\* however many more peers than workers there are.
C27_ReturnsWithinCeiling ==
    sp.pc = "returned" => sp.clock <= WaitDeadline

\* ================================================= upload_chunk_to_peer
\* uploader.py: UPLOAD_RETRIES = 2
UPLOAD_RETRIES == 2

\* values of the parameter retries
RetryCounts == {0, UPLOAD_RETRIES}

\* _make_session(retries=1, backoff_factor=1): Retry(total=1)
AdapterRetries == 1

\* what one HTTP POST /store can come to: a 2xx reply, a 5xx reply, no reply
\* in time, no connection, 400 hash_mismatch, 400 for a missing payload
Responses == {"ok", "server_error", "timeout", "refused", "hash_mismatch",
              "no_data"}

\* what the session's adapter retries by itself: connection and read
\* errors, and the statuses of status_forcelist
AdapterRetried(response) == response \in {"server_error", "timeout", "refused"}

Rejected(response) == response \in {"hash_mismatch", "no_data"}

\* upload_chunk_to_peer is called; a peer without ip or port fails at once
UploadCall(retries, has_address) ==
    /\ uc.pc = "idle"
    /\ uc' = IF has_address
             THEN [NoUploadCall EXCEPT !.pc = "post", !.retries = retries]
             ELSE [NoUploadCall EXCEPT !.pc = "done", !.retries = retries,
                                       !.status = "failed"]

\* the except branch: attempt += 1, give up when attempt > retries, else
\* sleep and go round the loop again
Raised(call) ==
    IF call.attempt + 1 > call.retries
    THEN [call EXCEPT !.attempt = @ + 1, !.adapter = 0, !.pc = "done",
                      !.status = "failed"]
    ELSE [call EXCEPT !.attempt = @ + 1, !.adapter = 0]

\* one HTTP request of session.post and what follows from its outcome:
\* the adapter sends it again, or post returns and raise_for_status passes
\* or raises, or post raises
Post(response) ==
    LET sent == [uc EXCEPT !.sent = Append(@, [attempt |-> uc.attempt,
                                               response |-> response])]
    IN  /\ uc.pc = "post"
        /\ uc' = IF response = "ok"
                 THEN [sent EXCEPT !.pc = "done", !.status = "ok"]
                 ELSE IF AdapterRetried(response) /\ uc.adapter < AdapterRetries
                 THEN [sent EXCEPT !.adapter = @ + 1]
                 ELSE Raised(sent)

NextR ==
    \/ \E retries \in RetryCounts, has_address \in BOOLEAN :
            UploadCall(retries, has_address) /\ UNCHANGED outside_retry
    \/ \E response \in Responses : Post(response) /\ UNCHANGED outside_retry

SpecR == Init /\ [][NextR]_vars

\* ------------------------------------------------------------------ C28
\* the passes of the while loop that called session.post
Attempts == {uc.sent[i].attempt : i \in 1..Len(uc.sent)}

\* C28 as stated: upload_chunk_to_peer calls post at most retries + 1 times,
\* sends the chunk again only after a timeout, a refused connection or a
\* server error, never after the peer rejected it as invalid or mismatching,
\* and ends with status ok or failed.
C28_RetryOnlyTransient ==
    /\ Cardinality(Attempts) <= uc.retries + 1
    /\ \A i \in 1..(Len(uc.sent) - 1) : ~Rejected(uc.sent[i].response)
    /\ uc.pc = "done" => uc.status \in {"ok", "failed"}

\* ========================================================== chunk_bytes
\* longest input drawn byte by byte
MaxData == 5

\* the 700 bytes of the scenario
ScenarioData == [k \in 1..700 |-> k % 2]

\* the bytes handed to chunk_bytes
DataInputs == UNION {[1..k -> {0, 1}] : k \in 0..MaxData} \cup {ScenarioData}

\* chunk sizes in bytes
ChunkSizes == {1, 2, 3, 256}

\* a read that gives up on a short remainder
readWhole(data, pos, size) ==
    IF pos + size <= Len(data) THEN SubSeq(data, pos + 1, pos + size) ELSE <<>>

\* f.read(chunk_size) at position pos: up to chunk_size bytes, fewer at the
\* end of the data, none after it
read(data, pos, size) == SubSeq(data, pos + 1, Min(pos + size, Len(data)))

\* chunk_bytes wraps the data in a BytesIO and chunk_file starts at idx 0
ChunkCall(data, chunk_size) ==
    /\ ck.pc = "idle"
    /\ ck' = [NoChunking EXCEPT !.pc = "read", !.data = data,
                                !.chunk_size = chunk_size]

\* one pass of the loop of chunk_file: read, stop on nothing, else hash and
\* yield (idx, chunk, chunk_hash) and count
ReadNext ==
    LET chunk == read(ck.data, ck.pos, ck.chunk_size)
    IN  /\ ck.pc = "read"
        /\ ck' = IF chunk = <<>>
                 THEN [ck EXCEPT !.pc = "done"]
                 ELSE [ck EXCEPT !.pos = @ + Len(chunk),
                                 !.chunks = Append(@, [index |-> Len(ck.chunks),
                                                       bytes |-> chunk,
                                                       hash |-> sha256(chunk)])]

NextC ==
    \/ \E data \in DataInputs, chunk_size \in ChunkSizes :
            ChunkCall(data, chunk_size) /\ UNCHANGED outside_chunking
    \/ ReadNext /\ UNCHANGED outside_chunking

SpecC == Init /\ [][NextC]_vars

\* ------------------------------------------------------------------ C30
ChunkBytes == [k \in 1..Len(ck.chunks) |-> ck.chunks[k].bytes]

ChunkLengths == [k \in 1..Len(ck.chunks) |-> Len(ck.chunks[k].bytes)]

\* C30: the chunks come with indices 0, 1, 2, ... in order, none is empty,
\* all but the last have exactly chunk_size bytes and each carries the
\* SHA-256 of its own bytes; when the generator ends their concatenation is
\* the data, empty data has given no chunk, and 700 bytes cut at 256 have
\* given chunks of 256, 256 and 188 bytes.
C30_ChunksPartitionData ==
    /\ \A k \in 1..Len(ck.chunks) :
            /\ ck.chunks[k].index = k - 1
            /\ ck.chunks[k].bytes # <<>>
            /\ ck.chunks[k].hash = sha256(ck.chunks[k].bytes)
            /\ k < Len(ck.chunks) => Len(ck.chunks[k].bytes) = ck.chunk_size
    /\ ck.pc = "done" =>
            /\ Flatten(ChunkBytes) = ck.data
            /\ ck.data = <<>> => ck.chunks = <<>>
            /\ Len(ck.data) = 700 /\ ck.chunk_size = 256
                   => ChunkLengths = <<256, 256, 188>>

\* the scenario's 700 bytes have been cut into three chunks
C30_Witness ==
    /\ ck.pc = "done"
    /\ Len(ck.data) = 700
    /\ ck.chunk_size = 256
    /\ Len(ck.chunks) = 3

\* ================================================== compute_merkle_root
\* longest list of chunk hashes
MaxHashes == 4

\* chunk hashes as sha256_bytes returns them
LeafHashes == {hexdigest(<<1>>), hexdigest(<<2>>), hexdigest(<<3>>)}

HashLists == UNION {[1..n -> LeafHashes] : n \in 0..MaxHashes}

\* bytes.fromhex(h): the digest, whatever the case of the letters
fromhex(h) == h.digest

\* bytes.hex(): lower-case digits
hex(b) == Address(b, "lower")

\* compute_merkle_root is called: the empty list returns at once, any other
\* is turned into a new list of digests
MerkleCall(chunk_hashes) ==
    /\ mk.pc = "idle"
    /\ mk' = IF chunk_hashes = <<>>
             THEN [NoMerkle EXCEPT !.pc = "returned", !.root = hexdigest(<<>>)]
             ELSE [NoMerkle EXCEPT !.pc = "loop", !.chunk_hashes = chunk_hashes,
                       !.layer = [k \in 1..Len(chunk_hashes) |->
                                     fromhex(chunk_hashes[k])]]

\* one pass of while len(layer) > 1
MerkleLevel ==
    /\ mk.pc = "loop"
    /\ Len(mk.layer) > 1
    /\ mk' = [mk EXCEPT !.layer = PairUp(@)]

\* return layer[0].hex()
MerkleReturn ==
    /\ mk.pc = "loop"
    /\ Len(mk.layer) <= 1
    /\ mk' = [mk EXCEPT !.pc = "returned", !.root = hex(mk.layer[1])]

verify_merkle_root(chunk_hashes, expected_root) ==
    LET layer == [k \in 1..Len(chunk_hashes) |-> fromhex(chunk_hashes[k])]
        computed_root == IF chunk_hashes = <<>> THEN hexdigest(<<>>)
                         ELSE hex(compute_merkle_root(layer))
    IN  computed_root = lower(expected_root)

\* verify_merkle_root is called with a list of chunk hashes and the root
\* returned before
MerkleVerify(chunk_hashes) ==
    /\ mk.pc = "returned"
    /\ mk' = [mk EXCEPT !.pc = "verified", !.checked = chunk_hashes,
                        !.expected_root = mk.root,
                        !.verified = verify_merkle_root(chunk_hashes, mk.root)]

NextM ==
    \/ \E chunk_hashes \in HashLists :
            MerkleCall(chunk_hashes) /\ UNCHANGED outside_merkle
    \/ MerkleLevel /\ UNCHANGED outside_merkle
    \/ MerkleReturn /\ UNCHANGED outside_merkle
    \/ \E chunk_hashes \in HashLists :
            MerkleVerify(chunk_hashes) /\ UNCHANGED outside_merkle

SpecM == Init /\ [][NextM]_vars

\* ------------------------------------------------------------------ C31
\* H(left || right) over raw digests
H(left, right) == sha256(left \o right)

Leaf(k) == fromhex(mk.chunk_hashes[k])

Returned31 == mk.pc \in {"returned", "verified"}

\* C31: compute_merkle_root returns the hash of the empty byte string for an
\* empty list and the hash itself for a list of one; it pairs level by
\* level and doubles an odd last node, so three hashes give
\* H(H(h0 || h1) || H(h2 || h2)); the list it was given stays as it was, and
\* computing the root of the same list again gives the same root.
C31_MerkleRootShape ==
    /\ [](Returned31 =>
            /\ Len(mk.chunk_hashes) = 0 => mk.root = hexdigest(<<>>)
            /\ Len(mk.chunk_hashes) = 1 => mk.root = mk.chunk_hashes[1]
            /\ Len(mk.chunk_hashes) = 2 => mk.root = hex(H(Leaf(1), Leaf(2)))
            /\ Len(mk.chunk_hashes) = 3 =>
                   mk.root = hex(H(H(Leaf(1), Leaf(2)), H(Leaf(3), Leaf(3))))
            /\ Len(mk.chunk_hashes) = 4 =>
                   mk.root = hex(H(H(Leaf(1), Leaf(2)), H(Leaf(3), Leaf(4)))))
    /\ [](mk.pc = "verified" /\ mk.checked = mk.chunk_hashes => mk.verified)
    /\ [][mk.pc # "idle" => mk'.chunk_hashes = mk.chunk_hashes]_vars

\* a root of three different hashes has been returned
C31_Witness ==
    /\ mk.pc = "returned"
    /\ Len(mk.chunk_hashes) = 3
    /\ Cardinality({mk.chunk_hashes[k] : k \in 1..3}) = 3

\* ------------------------------------------------------------------ C32
\* C32 as stated: verify_merkle_root accepts a list of chunk hashes only if
\* it is the list the root was computed from, in content, order and length.
C32_OnlyTheSameListVerifies ==
    mk.pc = "verified" /\ mk.verified => mk.checked = mk.chunk_hashes

\* ======================================== encrypt_chunk / decrypt_chunk
\* config.py
AES_KEY_SIZE == 32
AES_NONCE_SIZE == 12
AES_TAG_SIZE == 16

\* longest chunk handed to encrypt_chunk
MaxPlain == 3

\* byte values of the plaintext and of the ciphertext
ByteValues == 4

Bytes(n, v) == [i \in 1..n |-> v]

\* two 256-bit keys and a 128-bit one
Keys == {Bytes(AES_KEY_SIZE, 1), Bytes(AES_KEY_SIZE, 2), Bytes(16, 1)}

\* what os.urandom(AES_NONCE_SIZE) can return
Nonces == {Bytes(AES_NONCE_SIZE, 0), Bytes(AES_NONCE_SIZE, 3)}

ChunkData == UNION {[1..n -> {0, 1}] : n \in 0..MaxPlain}

\* the key stream of the counter mode at byte i
KeyStream(key, nonce, i) == (key[1] + nonce[1] + i) % ByteValues

\* the authentication tag: one value for each key, nonce and ciphertext
RECURSIVE Digits(_)
Digits(ciphertext) ==
    IF ciphertext = <<>> THEN 1
    ELSE (ByteValues + 1) * Digits(SubSeq(ciphertext, 1, Len(ciphertext) - 1))
            + ciphertext[Len(ciphertext)] + 1

GcmTag(key, nonce, ciphertext) ==
    Bytes(AES_TAG_SIZE, 100000 * key[1] + 10000 * nonce[1] + Digits(ciphertext))

\* AESGCM(key).encrypt(nonce, data, None): ciphertext || tag
AESGCM_encrypt(key, nonce, data) ==
    LET ciphertext == [i \in 1..Len(data) |->
                          (data[i] + KeyStream(key, nonce, i)) % ByteValues]
    IN  ciphertext \o GcmTag(key, nonce, ciphertext)

\* AESGCM(key).decrypt(nonce, data, None): InvalidTag unless the tag is the
\* one of this key, nonce and ciphertext
AESGCM_decrypt(key, nonce, data) ==
    LET n == Len(data) - AES_TAG_SIZE
        ciphertext == SubSeq(data, 1, n)
        tag == SubSeq(data, n + 1, Len(data))
    IN  IF n < 0 \/ tag # GcmTag(key, nonce, ciphertext)
        THEN [status |-> "InvalidTag", data |-> <<>>]
        ELSE [status |-> "ok",
              data |-> [i \in 1..n |->
                           (ciphertext[i] + ByteValues - KeyStream(key, nonce, i))
                               % ByteValues]]

\* a decrypt_chunk that wants at least one byte of ciphertext before the tag
aes_decrypt_chunk_nonempty(encrypted_data, key) ==
    IF Len(key) # AES_KEY_SIZE \/ Len(encrypted_data) < AES_NONCE_SIZE + AES_TAG_SIZE + 1
    THEN [status |-> "ValueError", data |-> <<>>]
    ELSE AESGCM_decrypt(key, SubSeq(encrypted_data, 1, AES_NONCE_SIZE),
                        SubSeq(encrypted_data, AES_NONCE_SIZE + 1,
                               Len(encrypted_data)))

\* crypto.decrypt_chunk
aes_decrypt_chunk(encrypted_data, key) ==
    IF Len(key) # AES_KEY_SIZE \/ Len(encrypted_data) < AES_NONCE_SIZE + 1
    THEN [status |-> "ValueError", data |-> <<>>]
    ELSE AESGCM_decrypt(key, SubSeq(encrypted_data, 1, AES_NONCE_SIZE),
                        SubSeq(encrypted_data, AES_NONCE_SIZE + 1,
                               Len(encrypted_data)))

\* crypto.encrypt_chunk with the nonce it drew: nonce || ciphertext || tag
EncryptChunk(chunk_data, key, nonce) ==
    /\ cr.pc = "idle"
    /\ cr' = IF Len(key) # AES_KEY_SIZE
             THEN [NoCrypto EXCEPT !.pc = "done", !.key = key,
                                   !.chunk_data = chunk_data,
                                   !.status = "ValueError"]
             ELSE [NoCrypto EXCEPT !.pc = "encrypted", !.key = key,
                                   !.chunk_data = chunk_data, !.nonce = nonce,
                                   !.encrypted = nonce \o AESGCM_encrypt(key, nonce,
                                                                        chunk_data)]

\* what reaches decrypt_chunk: the bytes as returned, with the last byte
\* changed, or cut after the nonce
Damage == {"none", "changed", "cut"}

Damaged(encrypted, damage) ==
    IF damage = "changed"
    THEN [encrypted EXCEPT ![Len(encrypted)] = @ + 1]
    ELSE IF damage = "cut" THEN SubSeq(encrypted, 1, AES_NONCE_SIZE)
    ELSE encrypted

\* crypto.decrypt_chunk on the result of the encrypt_chunk before
DecryptChunk(key, damage) ==
    LET given == Damaged(cr.encrypted, damage)
        result == aes_decrypt_chunk(given, key)
    IN  /\ cr.pc = "encrypted"
        /\ cr' = [cr EXCEPT !.pc = "done", !.decrypt_key = key,
                            !.damage = damage, !.decrypted = result.data,
                            !.status = result.status]

NextK ==
    \/ \E chunk_data \in ChunkData, key \in Keys, nonce \in Nonces :
            EncryptChunk(chunk_data, key, nonce) /\ UNCHANGED outside_crypto
    \/ \E key \in Keys, damage \in Damage :
            DecryptChunk(key, damage) /\ UNCHANGED outside_crypto

SpecK == Init /\ [][NextK]_vars

\* ------------------------------------------------------------------ C33
\* decrypt_chunk was given what encrypt_chunk returned and the same key
RoundTrip ==
    /\ cr.pc = "done"
    /\ cr.decrypt_key = cr.key
    /\ cr.damage = "none"

\* C33: for every 256-bit key and every chunk, the empty one included,
\* decrypt_chunk of what encrypt_chunk returned, under the same key, returns
\* the chunk, whatever the nonce drawn.
C33_RoundTrip ==
    RoundTrip => cr.status = "ok" /\ cr.decrypted = cr.chunk_data

\* the empty chunk has gone through both calls
C33_Witness == RoundTrip /\ cr.chunk_data = <<>>

\* ------------------------------------------------------------------ C34
\* a download by the owner with a password other than the one the file key
\* was wrapped under
WrongSecret ==
    /\ dl.pc = "done"
    /\ dl.password # "secret"
    /\ dl.status \notin {"not_found", "access_denied"}

\* C34 as stated: a download with the wrong secret unwraps no key, asks no
\* peer for a chunk and ends with a wrong-secret outcome; a download that
\* went on to the chunks never ends with that outcome.
C34_WrongSecretDistinct ==
    /\ WrongSecret =>
            /\ ~dl.unwrapped
            /\ dl.log = <<>>
            /\ dl.status = "wrong_secret"
    /\ dl.unwrapped => dl.status # "wrong_secret"

\* ===================================== connections of the storage nodes
\* the node process that opens a connection: n1 connects twice
NodeOf(sid) == IF sid = "s3" THEN "n2" ELSE "n1"

\* the request thread of this part
Senders == {"c1"}

\* handle_connect: the socket is there, nothing is registered
Connect(sid) ==
    /\ conn[sid].state = "none"
    /\ conn' = [conn EXCEPT ![sid].state = "open"]
    /\ UNCHANGED transport_vars

\* handle_node_register on the socket request.sid: the entry is replaced,
\* with this sid, last_seen now and empty response_queues
NodeRegisterOn(sid) ==
    /\ conn[sid].state = "open"
    /\ nodes_lock = "free"
    /\ NODES' = Put(NODES, NodeOf(sid), [sid |-> sid, response_queues |-> {},
                                         alive |-> TRUE])
    /\ UNCHANGED <<nodes_lock, queues, caller, wire, next_id, conn>>

\* handle_node_heartbeat: last_seen of a registered node is set to now
NodeHeartbeat(sid) ==
    /\ conn[sid].state = "open"
    /\ nodes_lock = "free"
    /\ NODES' = IF Registered(NodeOf(sid))
                THEN [NODES EXCEPT ![NodeOf(sid)].alive = TRUE]
                ELSE NODES
    /\ UNCHANGED <<nodes_lock, queues, caller, wire, next_id, conn>>

\* TTL seconds pass without a heartbeat of the node
Expire(node_id) ==
    /\ Registered(node_id)
    /\ NODES[node_id].alive
    /\ NODES' = [NODES EXCEPT ![node_id].alive = FALSE]
    /\ UNCHANGED <<nodes_lock, queues, caller, wire, next_id, conn>>

\* a disconnect that removes what the socket's node process has registered
RemovedByOwner(sid) == {nid \in DOMAIN NODES : nid = NodeOf(sid)}

\* handle_disconnect: to_remove, the node ids registered with the socket's id
RemovedBy(sid) == {nid \in DOMAIN NODES : NODES[nid].sid = sid}

\* handle_disconnect of the socket request.sid
Disconnect(sid) ==
    /\ conn[sid].state = "open"
    /\ nodes_lock = "free"
    /\ NODES' = [nid \in DOMAIN NODES \ RemovedBy(sid) |-> NODES[nid]]
    /\ conn' = [conn EXCEPT ![sid] = [state |-> "closed",
                                      left |-> DOMAIN NODES \ RemovedBy(sid)]]
    /\ UNCHANGED <<nodes_lock, queues, caller, wire, next_id>>

\* get_active_nodes: the registered nodes seen within TTL
get_active_nodes == {nid \in DOMAIN NODES : NODES[nid].alive}

NextV ==
    \/ \E sid \in Sids : Connect(sid) /\ UNCHANGED outside_connections
    \/ \E sid \in Sids : NodeRegisterOn(sid) /\ UNCHANGED outside_connections
    \/ \E sid \in Sids : NodeHeartbeat(sid) /\ UNCHANGED outside_connections
    \/ \E node_id \in Nodes : Expire(node_id) /\ UNCHANGED outside_connections
    \/ \E sid \in Sids : Disconnect(sid) /\ UNCHANGED outside_connections
    \/ \E c \in Senders : Begin(c) /\ UNCHANGED outside_transport
    \/ \E c \in Senders : Register(c) /\ UNCHANGED outside_transport
    \/ \E c \in Senders : DeleteLookup(c) /\ UNCHANGED outside_transport
    \/ \E c \in Senders : Unlock(c) /\ UNCHANGED outside_transport
    \/ \E c \in Senders : Emit(c) /\ UNCHANGED outside_transport
    \/ \E m \in wire : NodeHandle(m) /\ UNCHANGED outside_transport
    \/ \E m \in wire : HandleReply(m) /\ UNCHANGED outside_transport
    \/ \E c \in Senders : Receive(c) /\ UNCHANGED outside_transport
    \/ \E c \in Senders : Timeout(c) /\ UNCHANGED outside_transport
    \/ \E c \in Senders : Cleanup(c) /\ UNCHANGED outside_transport

SpecV == Init /\ [][NextV]_vars

\* ------------------------------------------------------------------ C35
\* C35 as stated: when the reply with the request's id is handled while the
\* caller still waits, the caller's Queue holds it, so that the caller
\* returns the reply's result, whatever node_register and node_heartbeat
\* events of the node came in between.
C35_ReplyWakesCaller ==
    [][\A m \in Replies, c \in Senders :
        (/\ HandleReply(m)
         /\ caller[c].pc = "wait"
         /\ caller[c].node_id = m.node_id
         /\ caller[c].request_id = m.request_id)
        => /\ queues'[caller[c].request_id] # <<>>
           /\ Head(queues'[caller[c].request_id]).success = m.success]_vars

\* ------------------------------------------------------------------ C40
\* C40: a node id leaves NODES only in the step that handles the disconnect
\* of the socket the node is registered on at that moment; the disconnect of
\* a socket the node registered on earlier leaves the newer registration.
C40_OnlyCurrentConnectionRemoves ==
    [][\A nid \in DOMAIN NODES :
        nid \notin DOMAIN NODES' =>
            \E sid \in Sids : Disconnect(sid) /\ NODES[nid].sid = sid]_vars

\* n1 registered on its first connection, again on its second, and the
\* disconnect of the first was handled after that
C40_Witness ==
    /\ conn["s1"].state = "closed"
    /\ "n1" \in conn["s1"].left
    /\ Registered("n1")
    /\ NODES["n1"].sid = "s2"

\* =========================================== file listing and deletion
\* get_user_files: the blocks that are not rejected, not pending unless
\* asked for, and whose data carry the owner's id and a file id
Listed(b, owner_id, include_pending) ==
    /\ b.status # REJECTED
    /\ include_pending \/ b.status # PENDING
    /\ b.data.owner_id = owner_id
    /\ b.data.file_id # 0

FileEntry(b) ==
    [block_index |-> b.index, status |-> b.status, file_id |-> b.data.file_id,
     action |-> b.data.action]

get_user_files(c, owner_id, include_pending) ==
    LET listed == SelectSeq(c, LAMBDA b : Listed(b, owner_id, include_pending))
    IN  [k \in 1..Len(listed) |-> FileEntry(listed[k])]

\* a call of blockchain.get_user_files
ListFiles(user, include_pending) ==
    /\ dl.pc = "idle"
    /\ dl' = [NoDownload EXCEPT !.pc = "listed", !.user = user,
                                !.include_pending = include_pending,
                                !.files = get_user_files(chain, user,
                                                         include_pending)]
    /\ UNCHANGED <<ledger_vars, thread>>

\* request threads handling DELETE /delete/<file_id>
Deleters == {"t1", "t2"}

\* delete_file up to the add_block: the file is looked up, its owner is
\* compared, the ledger is searched for a delete marker
DeleteCheck(t, user, file_id) ==
    LET i == FindFile(chain, file_id)
        request == [NoThread EXCEPT !.op = "delete_file", !.user = user,
                                    !.file_id = file_id]
    IN  /\ thread[t].pc = "idle"
        /\ dl.pc = "idle"
        /\ thread' = [thread EXCEPT ![t] =
                IF i = 0
                THEN [request EXCEPT !.pc = "done", !.ret = "not_found"]
                ELSE IF chain[i].data.owner_id # user
                THEN [request EXCEPT !.pc = "done", !.ret = "access_denied"]
                ELSE IF HasRecord(chain, file_id, "delete", "-")
                THEN [request EXCEPT !.pc = "done", !.ret = "already_deleted"]
                ELSE [request EXCEPT !.pc = "append"]]
        /\ UNCHANGED <<ledger_vars, dl>>

\* blockchain.add_block(deletion_metadata); the ledger of this part takes one
\* block more than MaxChain, for the marker of a second request
DeleteAppend(t) ==
    /\ thread[t].pc = "append"
    /\ \E timestamp \in Times :
        add_block_within(MaxChain + 1,
                         FileData(thread[t].file_id, thread[t].user, "delete", "-"),
                         <<>>, 1, timestamp)
    /\ thread' = [thread EXCEPT ![t].pc = "done",
                                ![t].ret = IF last'.ret = "block" THEN "success"
                                           ELSE "failed"]
    /\ UNCHANGED dl

outside_requests == <<lock, serial, transport_vars, ul, peer, sp, uc, ck, mk, cr,
    conn>>

NextF ==
    \/ \E user \in Users : Upload(user) /\ UNCHANGED outside_files
    \/ \E user, target \in Users, file_id \in FileIds :
            Share(user, file_id, target) /\ UNCHANGED outside_files
    \/ \E user, target \in Users, file_id \in FileIds :
            Unshare(user, file_id, target) /\ UNCHANGED outside_files
    \/ RejectBlock /\ UNCHANGED outside_ledger
    \/ \E user \in Users, include_pending \in BOOLEAN :
            ListFiles(user, include_pending) /\ UNCHANGED outside_requests
    \/ \E t \in Deleters, user \in Users, file_id \in FileIds :
            DeleteCheck(t, user, file_id) /\ UNCHANGED outside_requests
    \/ \E t \in Deleters : DeleteAppend(t) /\ UNCHANGED outside_requests

SpecF == Init /\ [][NextF]_vars

\* ------------------------------------------------------------------ C36
\* the file-metadata blocks of the user that a listing has to show
FileBlocks(user, include_pending) ==
    {i \in 1..Len(chain) :
        /\ chain[i].data.action = "upload"
        /\ chain[i].data.owner_id = user
        /\ chain[i].status # REJECTED
        /\ include_pending \/ chain[i].status # PENDING}

\* C36 as stated: get_user_files(owner) returns one entry for each
\* non-rejected file-metadata block of the owner, without the pending ones
\* when include_pending is false, and no entry for a share, unshare or
\* delete marker.
C36_ListingIsTheFiles ==
    dl.pc = "listed" =>
        /\ Len(dl.files) = Cardinality(FileBlocks(dl.user, dl.include_pending))
        /\ \A i \in FileBlocks(dl.user, dl.include_pending) :
                \E k \in 1..Len(dl.files) : dl.files[k].block_index = chain[i].index
        /\ \A k \in 1..Len(dl.files) : dl.files[k].action = "upload"

\* ------------------------------------------------------------------ C37
DeleteMarkers(file_id) ==
    {i \in 1..Len(chain) :
        chain[i].data.action = "delete" /\ chain[i].data.file_id = file_id}

\* C37 as stated: the ledger holds at most one delete marker for a file id,
\* also when two delete requests for the file are handled at the same time.
C37_OneDeleteMarker ==
    \A i \in 1..Len(chain) :
        Cardinality(DeleteMarkers(chain[i].data.file_id)) <= 1

\* ------------------------------------------------------------------ C38
\* every store request of the upload was acknowledged by its node
AllAcknowledged ==
    /\ ul.handed
    /\ ul.impl = "server"
    /\ \A n \in 1..Len(ul.log) : Accepted(ul.log[n].outcome)

\* C38 as stated: an upload whose store requests were all acknowledged
\* creates the file's block with status confirmed, for any number of live
\* nodes.
C38_AcknowledgedUploadConfirmed ==
    AllAcknowledged =>
        /\ ul.status = "success"
        /\ chain # <<>>
        /\ chain[Len(chain)].status = CONFIRMED

\* ------------------------------------------------------------------ C39
\* the blocks of old are the first blocks of new, status, confirmations and
\* audit keys apart
Extends(old, new) ==
    /\ Len(new) >= Len(old)
    /\ \A i \in 1..Len(old) :
        new[i] = [old[i] EXCEPT !.status = new[i].status,
                                !.confirmations = new[i].confirmations,
                                !.extra = new[i].extra]

\* C39 as stated: whatever load, add_block, add_confirmation or reject_block
\* does, the block sequence in the ledger file extends the one that was in the
\* file before, also after a load that found the file failing validation.
C39_PersistedBlocksKept ==
    [][last'.op \in LedgerCalls \cup {"load"} => Extends(file, file')]_vars
====
